---- MODULE Spec2Model ----
(***************************************************************************)
(* A model of the RAIS image server's s3-images plugin (single-flight      *)
(* download of remote assets into a local cache) and of the IIIF feature   *)
(* gate.  Strings are sequences of one-character strings so that slicing,  *)
(* splitting and hashing are computed as the Go code computes them.        *)
(***************************************************************************)
EXTENDS Integers, Sequences, FiniteSets, TLC

VARIABLES pc, op, id, left, napped, res, dlerr, cur, downloading, assets, files,
          cachedAtStart, nfetch, nfail, nok, hit, sawClear, aok, fs, u, gated, supported,
          supports, regionStr, written, region, regionValid, rpc,
          img, trace, jpc, level, reqLevel, tried, jerr, nsets, jimg, lastSet,
          lockreader, fsMutex, inUse, lpc, lret, holds,
          assetMutex, assetCache, opc, ofile, oret,
          teardownPlugins, srv, active, hpc, torn, wait, mpc, panicked,
          comps, pix, xpc

s3vars == <<pc, op, id, left, napped, res, dlerr, cur, downloading, assets, files,
            cachedAtStart, nfetch, nfail, nok, hit, sawClear, aok>>
fsvars == <<fs, u, gated, supported, supports>>
rgvars == <<regionStr, written, region, regionValid, rpc>>
jpvars == <<img, trace, jpc, level, reqLevel, tried, jerr, nsets, jimg, lastSet>>
lkvars == <<lockreader, fsMutex, inUse, lpc, lret, holds>>
ojvars == <<assetMutex, assetCache, opc, ofile, oret>>
sdvars == <<teardownPlugins, srv, active, hpc, torn, wait, mpc, panicked>>
pxvars == <<comps, pix, xpc>>
xvars == <<lkvars, ojvars, sdvars, pxvars>>
vars == <<s3vars, fsvars, rgvars, jpvars, xvars>>

\* ------------------------------------------------------------------ bounds

\* Number of concurrent request goroutines.
NProc == 2

Procs == 1..NProc

\* ----------------------------------------------------------------- strings

Chars == {"s", "3", ":", "a", "b", "c", "n", "i", "l", "x"}

\* ASCII code of a character, as []byte(s3ID) yields it.
ByteOf(c) ==
  CASE c = "s" -> 115 [] c = "3" -> 51 [] c = ":" -> 58 [] c = "a" -> 97
    [] c = "b" -> 98 [] c = "c" -> 99 [] c = "n" -> 110 [] c = "i" -> 105
    [] c = "l" -> 108 [] c = "x" -> 120

\* strconv.Itoa for a non-negative int.
RECURSIVE Itoa(_)
Itoa(n) ==
  LET d == <<"0", "1", "2", "3", "4", "5", "6", "7", "8", "9">>
  IN IF n < 10 THEN <<d[n + 1]>> ELSE Itoa(n \div 10) \o <<d[(n % 10) + 1]>>

\* Index of the first ":" in s, 0 if there is none.
RECURSIVE IndexColon(_, _)
IndexColon(s, i) ==
  IF i > Len(s) THEN 0 ELSE IF s[i] = ":" THEN i ELSE IndexColon(s, i + 1)

\* strings.SplitN(s, ":", 2)
SplitN2(s) ==
  LET i == IndexColon(s, 1)
  IN IF i = 0 THEN <<s>> ELSE <<SubSeq(s, 1, i - 1), SubSeq(s, i + 1, Len(s))>>

\* ------------------------------------------------------------------ FNV-1

\* XOR of two bytes, bit by bit.
RECURSIVE Xor8(_, _, _)
Xor8(a, b, n) ==
  IF n = 0 THEN 0
  ELSE ((a + b) % 2) + 2 * Xor8(a \div 2, b \div 2, n - 1)

\* One round of 32-bit FNV-1 on the hash held as 16-bit halves <<hi, lo>>:
\* hash = hash * 16777619 mod 2^32, then hash = hash XOR byte.
\* 16777619 = 2^24 + 403.
FnvStep(h, b) ==
  LET hi == h[1]
      lo == h[2]
      t == lo * 403
      mlo == t % 65536
      mhi == (hi * 403 + (t \div 65536) + (lo % 256) * 256) % 65536
  IN <<mhi, (mlo \div 256) * 256 + Xor8(mlo % 256, b, 8)>>

\* fnv.New32() followed by h.Write(bytes); the offset basis is 0x811c9dc5.
RECURSIVE FnvWrite(_, _)
FnvWrite(h, s) ==
  IF s = <<>> THEN h ELSE FnvWrite(FnvStep(h, ByteOf(Head(s))), Tail(s))

Fnv32(s) == FnvWrite(<<33052, 40389>>, s)

\* int(h.Sum32() / 10000): (hi * 65536 + lo) / 10000 without leaving 31 bits.
HashVal(s) ==
  LET h == Fnv32(s)
  IN h[1] * 6 + ((h[1] * 5536 + h[2]) \div 10000)

buckets(s3ID) ==
  LET val == HashVal(s3ID)
  IN <<Itoa(val % 100), Itoa((val \div 100) % 100)>>

\* The cache root, viper's S3Cache.
s3cache == <<"/">>

makePath(key) == <<s3cache, buckets(key)[1], buckets(key)[2], key>>

\* ------------------------------------------------------------ feature gate

\* Most FeatureSet fields toggled away from a preset plus URL parts changed
\* away from full/full/0/default.jpg.
MaxEdits == 2

RegionFields == {"RegionByPx", "RegionByPct"}

SizeFields == {"SizeByW", "SizeByH", "SizeByPct", "SizeByForcedWh", "SizeByWh"}

RotationFields == {"RotationBy90s", "RotationArbitrary", "Mirroring"}

QualityFields == {"Default", "Color", "Gray", "Bitonal"}

FormatFields == {"Jpg", "Png", "Tif", "Gif", "Jp2", "Pdf", "Webp"}

\* The fields no Supports* method reads.
OtherFields == {"SizeByWhListed", "SizeAboveFull", "BaseUriRedirect", "Cors",
                "JsonldMediaType", "ProfileLinkHeader", "CanonicalLinkHeader"}

Features == RegionFields \cup SizeFields \cup RotationFields \cup QualityFields
              \cup FormatFields \cup OtherFields

\* A FeatureSet with exactly the fields of T set.
FeatureSet(T) == [f \in Features |-> f \in T]

FeaturesLevel0 == FeatureSet({"SizeByWhListed", "Default", "Jpg"})

\* FeaturesLevel1 with Png set, as FeaturesLevel2 has it.
FeaturesLevel1_WithPng ==
  FeatureSet({"RegionByPx", "SizeByWhListed", "SizeByW", "SizeByH", "SizeByPct",
              "Default", "Jpg", "Png", "BaseUriRedirect", "Cors", "JsonldMediaType"})

FeaturesLevel1 ==
  FeatureSet({"RegionByPx", "SizeByWhListed", "SizeByW", "SizeByH", "SizeByPct",
              "Default", "Jpg", "BaseUriRedirect", "Cors", "JsonldMediaType"})

FeaturesLevel2 ==
  FeatureSet({"RegionByPx", "RegionByPct", "SizeByWhListed", "SizeByW", "SizeByH",
              "SizeByPct", "SizeByForcedWh", "SizeByWh", "RotationBy90s", "Default",
              "Color", "Gray", "Bitonal", "Jpg", "Png", "BaseUriRedirect", "Cors",
              "JsonldMediaType"})

\* SupportsRegion with the percent case reading the pixel field.
SupportsRegion_PctAsPx(f, r) ==
  CASE r.Type = "RTPixel" -> f.RegionByPx
    [] r.Type = "RTPercent" -> f.RegionByPx
    [] OTHER -> TRUE

SupportsRegion(f, r) ==
  CASE r.Type = "RTPixel" -> f.RegionByPx
    [] r.Type = "RTPercent" -> f.RegionByPct
    [] OTHER -> TRUE

\* SupportsSize with the fields of "w,h" and "!w,h" swapped.
SupportsSize_SwapWh(f, sz) ==
  CASE sz.Type = "STScaleToWidth" -> f.SizeByW
    [] sz.Type = "STScaleToHeight" -> f.SizeByH
    [] sz.Type = "STScalePercent" -> f.SizeByPct
    [] sz.Type = "STExact" -> f.SizeByWh
    [] sz.Type = "STBestFit" -> f.SizeByForcedWh
    [] OTHER -> TRUE

SupportsSize(f, sz) ==
  CASE sz.Type = "STScaleToWidth" -> f.SizeByW
    [] sz.Type = "STScaleToHeight" -> f.SizeByH
    [] sz.Type = "STScalePercent" -> f.SizeByPct
    [] sz.Type = "STExact" -> f.SizeByForcedWh
    [] sz.Type = "STBestFit" -> f.SizeByWh
    [] OTHER -> TRUE

\* SupportsRotation without the mirroring test.
SupportsRotation_NoMirrorTest(f, r) ==
  CASE r.Degrees = 0 -> TRUE
    [] r.Degrees \in {90, 180, 270} -> f.RotationBy90s \/ f.RotationArbitrary
    [] OTHER -> f.RotationArbitrary

\* SupportsRotation that refuses a mirrored rotation when Mirroring is set.
SupportsRotation_MirrorRefused(f, r) ==
  IF r.Mirror /\ f.Mirroring
    THEN FALSE
    ELSE CASE r.Degrees = 0 -> TRUE
           [] r.Degrees \in {90, 180, 270} -> f.RotationBy90s \/ f.RotationArbitrary
           [] OTHER -> f.RotationArbitrary

SupportsRotation(f, r) ==
  IF r.Mirror /\ ~f.Mirroring
    THEN FALSE
    ELSE CASE r.Degrees = 0 -> TRUE
           [] r.Degrees \in {90, 180, 270} -> f.RotationBy90s \/ f.RotationArbitrary
           [] OTHER -> f.RotationArbitrary

\* SupportsQuality without QNative in the QDefault case.
SupportsQuality_NoNative(f, q) ==
  CASE q = "QColor" -> f.Color
    [] q = "QGray" -> f.Gray
    [] q = "QBitonal" -> f.Bitonal
    [] q = "QDefault" -> f.Default
    [] OTHER -> FALSE

SupportsQuality(f, q) ==
  CASE q = "QColor" -> f.Color
    [] q = "QGray" -> f.Gray
    [] q = "QBitonal" -> f.Bitonal
    [] q \in {"QDefault", "QNative"} -> f.Default
    [] OTHER -> FALSE

\* SupportsFormat whose default case falls back to the Jpg field.
SupportsFormat_DefaultJpg(f, fmt) ==
  CASE fmt = "FmtJPG" -> f.Jpg
    [] fmt = "FmtTIF" -> f.Tif
    [] fmt = "FmtPNG" -> f.Png
    [] fmt = "FmtGIF" -> f.Gif
    [] fmt = "FmtJP2" -> f.Jp2
    [] fmt = "FmtPDF" -> f.Pdf
    [] fmt = "FmtWEBP" -> f.Webp
    [] OTHER -> f.Jpg

SupportsFormat(f, fmt) ==
  CASE fmt = "FmtJPG" -> f.Jpg
    [] fmt = "FmtTIF" -> f.Tif
    [] fmt = "FmtPNG" -> f.Png
    [] fmt = "FmtGIF" -> f.Gif
    [] fmt = "FmtJP2" -> f.Jp2
    [] fmt = "FmtPDF" -> f.Pdf
    [] fmt = "FmtWEBP" -> f.Webp
    [] OTHER -> FALSE

\* Supported that forgets the format.
Supported_NoFormat(f, x) ==
  /\ SupportsRegion(f, x.Region)
  /\ SupportsSize(f, x.Size)
  /\ SupportsRotation(f, x.Rotation)
  /\ SupportsQuality(f, x.Quality)

Supported(f, x) ==
  /\ SupportsRegion(f, x.Region)
  /\ SupportsSize(f, x.Size)
  /\ SupportsRotation(f, x.Rotation)
  /\ SupportsQuality(f, x.Quality)
  /\ SupportsFormat(f, x.Format)

\* The values a parsed URL's parts take; the last of each is a value the
\* switch statements do not name.
Regions == {[Type |-> t] : t \in {"RTFull", "RTSquare", "RTPixel", "RTPercent", "RTNone"}}

Sizes == {[Type |-> t] : t \in {"STFull", "STMax", "STScaleToWidth", "STScaleToHeight",
                                "STScalePercent", "STExact", "STBestFit", "STNone"}}

Rotations == {[Mirror |-> m, Degrees |-> d] : m \in BOOLEAN, d \in {0, 90, 180, 270, 45}}

Qualities == {"QDefault", "QNative", "QColor", "QGray", "QBitonal", "QUnknown"}

Formats == {"FmtJPG", "FmtTIF", "FmtPNG", "FmtGIF", "FmtJP2", "FmtPDF", "FmtWEBP",
            "FmtUnknown"}

\* full/full/0/default.jpg
BaseURL == [Region |-> [Type |-> "RTFull"], Size |-> [Type |-> "STFull"],
            Rotation |-> [Mirror |-> FALSE, Degrees |-> 0], Quality |-> "QDefault",
            Format |-> "FmtJPG"]

URLPart(part) ==
  CASE part = "Region" -> Regions
    [] part = "Size" -> Sizes
    [] part = "Rotation" -> Rotations
    [] part = "Quality" -> Qualities
    [] part = "Format" -> Formats

\* The URLs that differ from BaseURL in at most n parts.
RECURSIVE URLsWithin(_)
URLsWithin(n) ==
  IF n = 0 THEN {BaseURL}
  ELSE LET prev == URLsWithin(n - 1)
       IN prev \cup UNION {{[x EXCEPT ![part] = v] : x \in prev, v \in URLPart(part)} :
                              part \in DOMAIN BaseURL}

Presets == {FeaturesLevel0, FeaturesLevel1, FeaturesLevel2, FeatureSet({}),
            FeatureSet(Features)}

\* The FeatureSets that differ from a preset in at most n fields (a TOML
\* capabilities file may set any of them).
RECURSIVE FeatureSetsWithin(_)
FeatureSetsWithin(n) ==
  IF n = 0 THEN Presets
  ELSE LET prev == FeatureSetsWithin(n - 1)
       IN prev \cup {[f EXCEPT ![name] = ~@] : f \in prev, name \in Features}

\* ------------------------------------------------------------ iiif.Region

\* Numbers are held in tenths, so that "7.5" is 75 and "40" is 400.
Digits == <<"0", "1", "2", "3", "4", "5", "6", "7", "8", "9">>

IsDigit(c) == \E i \in 1..10 : Digits[i] = c

DigitOf(c) == (CHOOSE i \in 1..10 : Digits[i] = c) - 1

\* The value of a run of digits.
RECURSIVE Atoi(_)
Atoi(s) == IF s = <<>> THEN 0 ELSE Atoi(SubSeq(s, 1, Len(s) - 1)) * 10 + DigitOf(s[Len(s)])

AllDigits(s) == s # <<>> /\ \A i \in 1..Len(s) : IsDigit(s[i])

\* s is a decimal number: digits, or digits "." digit.
IsNumber(s) ==
  \/ AllDigits(s)
  \/ /\ Len(s) >= 3
     /\ s[Len(s) - 1] = "."
     /\ IsDigit(s[Len(s)])
     /\ AllDigits(SubSeq(s, 1, Len(s) - 2))

\* strconv.ParseFloat of a decimal number, in tenths.
ParseFloat(s) ==
  IF AllDigits(s) THEN Atoi(s) * 10
  ELSE Atoi(SubSeq(s, 1, Len(s) - 2)) * 10 + DigitOf(s[Len(s)])

\* strings.Split(s, ",")
RECURSIVE SplitComma(_)
SplitComma(s) ==
  IF \A i \in 1..Len(s) : s[i] # "," THEN <<s>>
  ELSE LET i == CHOOSE j \in 1..Len(s) : s[j] = "," /\ \A k \in 1..(j - 1) : s[k] # ","
       IN <<SubSeq(s, 1, i - 1)>> \o SplitComma(SubSeq(s, i + 1, Len(s)))

StrFull == <<"f", "u", "l", "l">>

StrSquare == <<"s", "q", "u", "a", "r", "e">>

StrPct == <<"p", "c", "t", ":">>

\* Region{Type: t}
RegionOfType(t) == [Type |-> t, X |-> 0, Y |-> 0, W |-> 0, H |-> 0]

\* Region{}
ZeroRegion == RegionOfType("RTNone")

\* StringToRegion that reads the numbers of "x,y,w,h" as x, y, h, w.
StringToRegion_SwapWH(p) ==
  IF p = StrFull THEN RegionOfType("RTFull")
  ELSE IF p = StrSquare THEN RegionOfType("RTSquare")
  ELSE LET pct == Len(p) >= 4 /\ SubSeq(p, 1, 4) = StrPct
           vals == SplitComma(IF pct THEN SubSeq(p, 5, Len(p)) ELSE p)
       IN IF Len(vals) # 4 \/ \E i \in 1..Len(vals) : ~IsNumber(vals[i])
            THEN ZeroRegion
            ELSE [Type |-> IF pct THEN "RTPercent" ELSE "RTPixel",
                  X |-> ParseFloat(vals[1]), Y |-> ParseFloat(vals[2]),
                  W |-> ParseFloat(vals[4]), H |-> ParseFloat(vals[3])]

\* StringToRegion: "full", "square", "x,y,w,h", "pct:x,y,w,h"; anything else
\* yields a region that is not valid.
StringToRegion(p) ==
  IF p = StrFull THEN RegionOfType("RTFull")
  ELSE IF p = StrSquare THEN RegionOfType("RTSquare")
  ELSE LET pct == Len(p) >= 4 /\ SubSeq(p, 1, 4) = StrPct
           vals == SplitComma(IF pct THEN SubSeq(p, 5, Len(p)) ELSE p)
       IN IF Len(vals) # 4 \/ \E i \in 1..Len(vals) : ~IsNumber(vals[i])
            THEN ZeroRegion
            ELSE [Type |-> IF pct THEN "RTPercent" ELSE "RTPixel",
                  X |-> ParseFloat(vals[1]), Y |-> ParseFloat(vals[2]),
                  W |-> ParseFloat(vals[3]), H |-> ParseFloat(vals[4])]

\* Region.Valid that tests the width alone.
Valid_WidthOnly(r) ==
  CASE r.Type \in {"RTFull", "RTSquare"} -> TRUE
    [] r.Type \in {"RTPixel", "RTPercent"} -> r.W > 0
    [] OTHER -> FALSE

\* Region.Valid
Valid(r) ==
  CASE r.Type \in {"RTFull", "RTSquare"} -> TRUE
    [] r.Type \in {"RTPixel", "RTPercent"} -> r.W > 0 /\ r.H > 0
    [] OTHER -> FALSE

\* The numbers region strings are written with.
NumTexts == {<<"0">>, <<"1", "0">>, <<"7", ".", "5">>}

\* Most numbers written in a region string.
MaxNums == 5

\* Region strings that are not lists of numbers: "", "full", "square", "ful",
\* "pct:", "pct:full", "10,,10,10", "x,y,w,h".
Words == {<<>>, StrFull, StrSquare, <<"f", "u", "l">>, StrPct, StrPct \o StrFull,
          <<"1", "0", ",", ",", "1", "0", ",", "1", "0">>,
          <<"x", ",", "y", ",", "w", ",", "h">>}

RECURSIVE SeqsOfLen(_, _)
SeqsOfLen(S, n) ==
  IF n = 0 THEN {<<>>} ELSE {<<x>> \o t : x \in S, t \in SeqsOfLen(S, n - 1)}

\* What a region string is written from: a word, or a list of numbers with or
\* without "pct:" in front.
Written ==
  {[word |-> w, pct |-> FALSE, nums |-> <<>>] : w \in Words}
    \cup {[word |-> <<>>, pct |-> b, nums |-> ns] :
            b \in BOOLEAN, ns \in UNION {SeqsOfLen(NumTexts, n) : n \in 1..MaxNums}}

RECURSIVE JoinComma(_)
JoinComma(ns) ==
  IF Len(ns) = 1 THEN ns[1] ELSE ns[1] \o <<",">> \o JoinComma(Tail(ns))

Render(w) ==
  IF w.nums = <<>> THEN w.word
  ELSE (IF w.pct THEN StrPct ELSE <<>>) \o JoinComma(w.nums)

\* Region values built directly, as Region{...} literals.
RegionLiterals ==
  {[Type |-> t, X |-> 0, Y |-> 0, W |-> w, H |-> h] :
     t \in {"RTNone", "RTFull", "RTSquare", "RTPixel", "RTPercent"},
     w \in {0, 75}, h \in {0, 100}}

\* No region handled yet.
InitRegion0 ==
  /\ regionStr = <<>>
  /\ written = [word |-> <<>>, pct |-> FALSE, nums |-> <<>>]
  /\ region = ZeroRegion
  /\ regionValid = FALSE
  /\ rpc = "idle"

\* r := StringToRegion(regionStr)
StringToRegionCall ==
  /\ rpc = "new"
  /\ region' = StringToRegion(regionStr)
  /\ rpc' = "parsed"
  /\ UNCHANGED <<regionStr, written, regionValid, s3vars, fsvars, jpvars, xvars>>

\* r = Region{...}
RegionLiteral(r) ==
  /\ rpc = "new"
  /\ region' = r
  /\ rpc' = "literal"
  /\ UNCHANGED <<regionStr, written, regionValid, s3vars, fsvars, jpvars, xvars>>

\* r.Valid()
ValidCall ==
  /\ rpc \in {"parsed", "literal"}
  /\ regionValid' = Valid(region)
  /\ rpc' = IF rpc = "parsed" THEN "parsedChecked" ELSE "literalChecked"
  /\ UNCHANGED <<regionStr, written, region, s3vars, fsvars, jpvars, xvars>>

\* ------------------------------------------------------- openjpeg.JP2Image

\* Highest progression level asked of SetDynamicProgressionLevel.
MaxLevel == 2

\* Most calls made on a JP2Image before DecodeImage.
MaxSetCalls == 2

\* A native call in the log: its name, the resolution factor it set or read
\* the header at (-1 for the other calls) and whether it succeeded.
Step(name, lv, ok) == [op |-> name, lv |-> lv, ok |-> ok]

\* The image after NewJP2Image: initializeStream has opened the stream.
NewJP2Image ==
  [stream |-> TRUE, codec |-> FALSE, image |-> FALSE, crop |-> FALSE,
   resizeByPercent |-> FALSE, resizeByPixels |-> FALSE, factor |-> 0, hdrFactor |-> 0]

\* A method's receiver, the native calls made so far and the error it has run
\* into ("nil" for none).
Ctx(i, tr) == [i |-> i, tr |-> tr, err |-> "nil"]

\* initializeCodec: creates and sets up the decoder unless there is one.
initializeCodec(c, ok) ==
  IF c.i.codec THEN c
  ELSE IF ok
    THEN [c EXCEPT !.i.codec = TRUE, !.i.factor = 0,
                   !.tr = Append(@, Step("codec", -1, TRUE))]
    ELSE [c EXCEPT !.err = "failed to initialize codec",
                   !.tr = Append(@, Step("codec", -1, FALSE))]

\* initializeStream: opens the file stream unless there is one.
initializeStream(c, ok) ==
  IF c.i.stream THEN c
  ELSE IF ok
    THEN [c EXCEPT !.i.stream = TRUE, !.tr = Append(@, Step("stream", -1, TRUE))]
    ELSE [c EXCEPT !.err = "failed to open stream",
                   !.tr = Append(@, Step("stream", -1, FALSE))]

\* CleanupResources: destroys the image, the codec and the stream.
CleanupResources(c) ==
  [c EXCEPT !.i.stream = FALSE, !.i.codec = FALSE, !.i.image = FALSE,
            !.tr = Append(@, Step("cleanup", -1, TRUE))]

ReadHeader(c, okCodec, okStream, okHeader) ==
  IF c.i.image THEN c
  ELSE LET c1 == initializeCodec(c, okCodec)
           c2 == initializeStream(c1, okStream)
       IN IF c1.err # "nil" THEN c1
          ELSE IF c2.err # "nil" THEN c2
          ELSE IF okHeader
            THEN [c2 EXCEPT !.i.image = TRUE, !.i.hdrFactor = c2.i.factor,
                            !.tr = Append(@, Step("header", c2.i.factor, TRUE))]
            ELSE [c2 EXCEPT !.err = "failed to read the header",
                            !.tr = Append(@, Step("header", c2.i.factor, FALSE))]

GetDimensions(c, okCodec, okStream, okHeader) ==
  LET c1 == ReadHeader(c, okCodec, okStream, okHeader)
  IN IF c1.err # "nil" THEN c1 ELSE CleanupResources(c1)

\* SetScale that leaves resizeByPixels as it was.
SetScale_KeepPixels ==
  /\ jpc = "ready"
  /\ nsets < MaxSetCalls
  /\ nsets' = nsets + 1
  /\ img' = [img EXCEPT !.resizeByPercent = TRUE]
  /\ lastSet' = "SetScale"
  /\ UNCHANGED <<trace, jpc, level, reqLevel, tried, jerr, jimg, s3vars, fsvars, rgvars, xvars>>

SetScale ==
  /\ jpc = "ready"
  /\ nsets < MaxSetCalls
  /\ nsets' = nsets + 1
  /\ img' = [img EXCEPT !.resizeByPercent = TRUE, !.resizeByPixels = FALSE]
  /\ lastSet' = "SetScale"
  /\ UNCHANGED <<trace, jpc, level, reqLevel, tried, jerr, jimg, s3vars, fsvars, rgvars, xvars>>

SetResizeWH ==
  /\ jpc = "ready"
  /\ nsets < MaxSetCalls
  /\ nsets' = nsets + 1
  /\ img' = [img EXCEPT !.resizeByPixels = TRUE, !.resizeByPercent = FALSE]
  /\ lastSet' = "SetResizeWH"
  /\ UNCHANGED <<trace, jpc, level, reqLevel, tried, jerr, jimg, s3vars, fsvars, rgvars, xvars>>

SetCrop ==
  /\ jpc = "ready"
  /\ nsets < MaxSetCalls
  /\ nsets' = nsets + 1
  /\ img' = [img EXCEPT !.crop = TRUE]
  /\ UNCHANGED <<trace, jpc, level, reqLevel, tried, jerr, jimg, lastSet, s3vars, fsvars, rgvars, xvars>>

\* A caller asks for the dimensions before it decodes.
GetDimensionsCall(okCodec, okStream, okHeader) ==
  /\ jpc = "ready"
  /\ nsets < MaxSetCalls
  /\ nsets' = nsets + 1
  /\ LET c == GetDimensions(Ctx(img, trace), okCodec, okStream, okHeader)
     IN img' = c.i /\ trace' = c.tr
  /\ UNCHANGED <<jpc, level, reqLevel, tried, jerr, jimg, lastSet, s3vars, fsvars, rgvars, xvars>>

\* DecodeImage up to the call of SetDynamicProgressionLevel(lv), where lv is
\* what desiredProgressionLevel yields, or up to the ReadHeader call if the
\* image is not resized.
DecodeImageBegin(lv, okCodec, okStream, okHeader) ==
  /\ jpc = "ready"
  /\ LET c1 == initializeCodec(Ctx(img, Append(trace, Step("DecodeImage", -1, TRUE))), okCodec)
         dims == (img.resizeByPixels \/ img.resizeByPercent) /\ ~img.crop
         c2 == IF dims THEN GetDimensions(c1, TRUE, okStream, okHeader) ELSE c1
         pixels == img.resizeByPixels \/ img.resizeByPercent
     IN IF c1.err # "nil" \/ c2.err # "nil"
          THEN /\ img' = IF c1.err # "nil" THEN c1.i ELSE c2.i
               /\ trace' = IF c1.err # "nil" THEN c1.tr ELSE c2.tr
               /\ jerr' = IF c1.err # "nil" THEN c1.err ELSE c2.err
               /\ jpc' = "done"
               /\ UNCHANGED <<level, reqLevel>>
          ELSE /\ img' = [c2.i EXCEPT !.resizeByPixels = pixels]
               /\ trace' = c2.tr
               /\ jerr' = "nil"
               /\ IF pixels
                    THEN jpc' = "level" /\ level' = lv /\ reqLevel' = lv
                    ELSE jpc' = "header" /\ UNCHANGED <<level, reqLevel>>
  /\ UNCHANGED <<tried, nsets, jimg, lastSet, s3vars, fsvars, rgvars, xvars>>

\* LevelAttempt that reads the header before it sets the resolution factor.
LevelAttempt_HeaderFirst(c, lv, okCodec, okFactor, okStream, okHeader) ==
  LET c1 == initializeCodec(c, okCodec)
      c2 == ReadHeader(c1, TRUE, okStream, okHeader)
      c3 == IF okFactor
              THEN [c2 EXCEPT !.i.factor = lv, !.tr = Append(@, Step("level", lv, TRUE))]
              ELSE [c2 EXCEPT !.err = "Error trying to set decoded resolution factor",
                              !.tr = Append(@, Step("level", lv, FALSE))]
  IN IF c1.err # "nil" THEN c1
     ELSE IF c2.err # "nil" THEN c2
     ELSE c3

\* What one call of SetDynamicProgressionLevel does before it returns nil or
\* calls onErr.
LevelAttempt(c, lv, okCodec, okFactor, okStream, okHeader) ==
  LET c1 == initializeCodec(c, okCodec)
      c2 == IF okFactor
              THEN [c1 EXCEPT !.i.factor = lv, !.tr = Append(@, Step("level", lv, TRUE))]
              ELSE [c1 EXCEPT !.err = "Error trying to set decoded resolution factor",
                              !.tr = Append(@, Step("level", lv, FALSE))]
  IN IF c1.err # "nil" THEN c1
     ELSE IF c2.err # "nil" THEN c2
     ELSE ReadHeader(c2, TRUE, okStream, okHeader)

\* SetDynamicProgressionLevel whose onErr gives up at once.
SetDynamicProgressionLevel_NoRetry(okCodec, okFactor, okStream, okHeader) ==
  /\ jpc = "level"
  /\ tried' = Append(tried, level)
  /\ LET c == LevelAttempt(Ctx(img, trace), level, okCodec, okFactor, okStream, okHeader)
     IN /\ img' = c.i
        /\ trace' = c.tr
        /\ jerr' = c.err
        /\ jpc' = IF c.err = "nil" THEN "header" ELSE "done"
        /\ UNCHANGED level
  /\ UNCHANGED <<reqLevel, nsets, jimg, lastSet, s3vars, fsvars, rgvars, xvars>>

\* One call of SetDynamicProgressionLevel(level): on an error onErr cleans up
\* and calls SetDynamicProgressionLevel(level - 1) if level > 0, and hands the
\* error to DecodeImage, which returns it, if not.
SetDynamicProgressionLevel(okCodec, okFactor, okStream, okHeader) ==
  /\ jpc = "level"
  /\ tried' = Append(tried, level)
  /\ LET c == LevelAttempt(Ctx(img, trace), level, okCodec, okFactor, okStream, okHeader)
         cc == CleanupResources(c)
     IN IF c.err = "nil"
          THEN /\ img' = c.i /\ trace' = c.tr /\ jerr' = "nil"
               /\ jpc' = "header"
               /\ UNCHANGED level
          ELSE IF level > 0
            THEN /\ img' = cc.i /\ trace' = cc.tr /\ jerr' = "nil"
                 /\ level' = level - 1
                 /\ UNCHANGED jpc
            ELSE /\ img' = c.i /\ trace' = c.tr /\ jerr' = c.err
                 /\ jpc' = "done"
                 /\ UNCHANGED level
  /\ UNCHANGED <<reqLevel, nsets, jimg, lastSet, s3vars, fsvars, rgvars, xvars>>

\* DecodeImageEnd that does not test what opj_end_decompress returns.
DecodeImageEnd_IgnoreEnd(okCodec, okStream, okHeader, okArea, okDecode, okEnd) ==
  /\ jpc = "header"
  /\ LET c1 == ReadHeader(Ctx(img, trace), okCodec, okStream, okHeader)
         c2 == IF ~img.crop THEN c1
               ELSE IF okArea
                 THEN [c1 EXCEPT !.tr = Append(@, Step("area", -1, TRUE))]
                 ELSE [c1 EXCEPT !.err = "failed to set the decoded area",
                                 !.tr = Append(@, Step("area", -1, FALSE))]
         c3 == IF okDecode
                 THEN [c2 EXCEPT !.tr = Append(@, Step("decode", -1, TRUE))]
                 ELSE [c2 EXCEPT !.err = "failed to decode image",
                                 !.tr = Append(@, Step("decode", -1, FALSE))]
         c4 == [c3 EXCEPT !.tr = Append(@, Step("end", -1, okEnd))]
         c == IF c1.err # "nil" THEN c1
              ELSE IF c2.err # "nil" THEN c2
              ELSE IF c3.err # "nil" THEN c3
              ELSE c4
     IN img' = c.i /\ trace' = c.tr /\ jerr' = c.err /\ jimg' = (c.err = "nil")
  /\ jpc' = "done"
  /\ UNCHANGED <<level, reqLevel, tried, nsets, lastSet, s3vars, fsvars, rgvars, xvars>>

\* The rest of DecodeImage: ReadHeader, opj_set_decode_area when cropping,
\* opj_decode, opj_end_decompress, and the image is built and returned.
DecodeImageEnd(okCodec, okStream, okHeader, okArea, okDecode, okEnd) ==
  /\ jpc = "header"
  /\ LET c1 == ReadHeader(Ctx(img, trace), okCodec, okStream, okHeader)
         c2 == IF ~img.crop THEN c1
               ELSE IF okArea
                 THEN [c1 EXCEPT !.tr = Append(@, Step("area", -1, TRUE))]
                 ELSE [c1 EXCEPT !.err = "failed to set the decoded area",
                                 !.tr = Append(@, Step("area", -1, FALSE))]
         c3 == IF okDecode
                 THEN [c2 EXCEPT !.tr = Append(@, Step("decode", -1, TRUE))]
                 ELSE [c2 EXCEPT !.err = "failed to decode image",
                                 !.tr = Append(@, Step("decode", -1, FALSE))]
         c4 == IF okEnd
                 THEN [c3 EXCEPT !.tr = Append(@, Step("end", -1, TRUE))]
                 ELSE [c3 EXCEPT !.err = "failed to close decompression",
                                 !.tr = Append(@, Step("end", -1, FALSE))]
         c == IF c1.err # "nil" THEN c1
              ELSE IF c2.err # "nil" THEN c2
              ELSE IF c3.err # "nil" THEN c3
              ELSE c4
     IN img' = c.i /\ trace' = c.tr /\ jerr' = c.err /\ jimg' = (c.err = "nil")
  /\ jpc' = "done"
  /\ UNCHANGED <<level, reqLevel, tried, nsets, lastSet, s3vars, fsvars, rgvars, xvars>>

\* A JP2Image fresh from NewJP2Image; the log starts with its stream.
InitJP2 ==
  /\ img = NewJP2Image
  /\ trace = <<Step("stream", -1, TRUE)>>
  /\ jpc = "ready"
  /\ level = 0
  /\ reqLevel = 0
  /\ tried = <<>>
  /\ jerr = "nil"
  /\ nsets = 0
  /\ jimg = FALSE
  /\ lastSet = "none"

\* ------------------------------------------------------- asset file lock

\* Number of goroutines that use the file lock of one asset.
NLockers == 3

Lockers == 1..NLockers

\* fLockAcquire that does not wait for fs to be free.
fLockAcquire_NoFsLock(p) ==
  /\ lpc[p] = "fLock:fs"
  /\ fsMutex' = p
  /\ inUse' = TRUE
  /\ lockreader' = 0
  /\ holds' = [holds EXCEPT ![p] = TRUE]
  /\ lret' = [lret EXCEPT ![p] = "locked"]
  /\ lpc' = [lpc EXCEPT ![p] = "idle"]
  /\ UNCHANGED <<s3vars, fsvars, rgvars, jpvars, ojvars, sdvars, pxvars>>

\* A goroutine that does not hold the file lock calls tryFLock.
tryFLockCall(p) ==
  /\ lpc[p] = "idle"
  /\ ~holds[p]
  /\ lpc' = [lpc EXCEPT ![p] = "tryFLock:lockreader"]
  /\ lret' = [lret EXCEPT ![p] = "none"]
  /\ UNCHANGED <<lockreader, fsMutex, inUse, holds, s3vars, fsvars, rgvars, jpvars, ojvars, sdvars, pxvars>>

\* tryFLock gets lockreader and reads inUse; if the asset is in use it gives
\* lockreader back and returns false.
tryFLock(p) ==
  /\ lpc[p] = "tryFLock:lockreader"
  /\ lockreader = 0
  /\ IF inUse
       THEN /\ lret' = [lret EXCEPT ![p] = "false"]
            /\ lpc' = [lpc EXCEPT ![p] = "idle"]
            /\ UNCHANGED lockreader
       ELSE /\ lockreader' = p
            /\ lpc' = [lpc EXCEPT ![p] = "tryFLock:fs"]
            /\ UNCHANGED lret
  /\ UNCHANGED <<fsMutex, inUse, holds, s3vars, fsvars, rgvars, jpvars, ojvars, sdvars, pxvars>>

\* tryFLock, having seen inUse false: a.fs.Lock(), inUse = true, and it gives
\* lockreader back and returns true.
tryFLockAcquire(p) ==
  /\ lpc[p] = "tryFLock:fs"
  /\ fsMutex = 0
  /\ fsMutex' = p
  /\ inUse' = TRUE
  /\ lockreader' = 0
  /\ holds' = [holds EXCEPT ![p] = TRUE]
  /\ lret' = [lret EXCEPT ![p] = "true"]
  /\ lpc' = [lpc EXCEPT ![p] = "idle"]
  /\ UNCHANGED <<s3vars, fsvars, rgvars, jpvars, ojvars, sdvars, pxvars>>

\* A goroutine that does not hold the file lock calls fLock.
fLockCall(p) ==
  /\ lpc[p] = "idle"
  /\ ~holds[p]
  /\ lpc' = [lpc EXCEPT ![p] = "fLock:lockreader"]
  /\ lret' = [lret EXCEPT ![p] = "none"]
  /\ UNCHANGED <<lockreader, fsMutex, inUse, holds, s3vars, fsvars, rgvars, jpvars, ojvars, sdvars, pxvars>>

\* fLock gets lockreader.
fLock(p) ==
  /\ lpc[p] = "fLock:lockreader"
  /\ lockreader = 0
  /\ lockreader' = p
  /\ lpc' = [lpc EXCEPT ![p] = "fLock:fs"]
  /\ UNCHANGED <<fsMutex, inUse, lret, holds, s3vars, fsvars, rgvars, jpvars, ojvars, sdvars, pxvars>>

\* fLock, holding lockreader: a.fs.Lock(), which waits until fs is free, then
\* inUse = true, and it gives lockreader back and returns.
fLockAcquire(p) ==
  /\ lpc[p] = "fLock:fs"
  /\ fsMutex = 0
  /\ fsMutex' = p
  /\ inUse' = TRUE
  /\ lockreader' = 0
  /\ holds' = [holds EXCEPT ![p] = TRUE]
  /\ lret' = [lret EXCEPT ![p] = "locked"]
  /\ lpc' = [lpc EXCEPT ![p] = "idle"]
  /\ UNCHANGED <<s3vars, fsvars, rgvars, jpvars, ojvars, sdvars, pxvars>>

\* The holder of the file lock calls fUnlock.
fUnlockCall(p) ==
  /\ lpc[p] = "idle"
  /\ holds[p]
  /\ lpc' = [lpc EXCEPT ![p] = "fUnlock:lockreader"]
  /\ lret' = [lret EXCEPT ![p] = "none"]
  /\ UNCHANGED <<lockreader, fsMutex, inUse, holds, s3vars, fsvars, rgvars, jpvars, ojvars, sdvars, pxvars>>

\* fUnlock gets lockreader, clears inUse, unlocks fs, gives lockreader back and
\* returns.
fUnlock(p) ==
  /\ lpc[p] = "fUnlock:lockreader"
  /\ lockreader = 0
  /\ inUse' = FALSE
  /\ fsMutex' = 0
  /\ holds' = [holds EXCEPT ![p] = FALSE]
  /\ lret' = [lret EXCEPT ![p] = "unlocked"]
  /\ lpc' = [lpc EXCEPT ![p] = "idle"]
  /\ UNCHANGED <<lockreader, s3vars, fsvars, rgvars, jpvars, ojvars, sdvars, pxvars>>

\* An asset fresh from newAsset: both mutexes free, not in use.
InitLock0 ==
  /\ lockreader = 0
  /\ fsMutex = 0
  /\ inUse = FALSE
  /\ lpc = [p \in Lockers |-> "idle"]
  /\ lret = [p \in Lockers |-> "none"]
  /\ holds = [p \in Lockers |-> FALSE]


\* ------------------------------------------------- openjpeg asset cache

\* The JP2 files that are looked up.
Filenames == {"a.jp2", "b.jp2"}

\* What asset.read returns: nil, or the error of os.Open, f.Stat or
\* io.ReadFull.
ReadErrors == {"nil", "open", "stat", "read"}

\* A goroutine calls the openjpeg lookupAsset(f).
openjpegLookupAssetCall(p, f) ==
  /\ opc[p] = "idle"
  /\ opc' = [opc EXCEPT ![p] = "lookupAsset:assetMutex"]
  /\ ofile' = [ofile EXCEPT ![p] = f]
  /\ oret' = [oret EXCEPT ![p] = "none"]
  /\ UNCHANGED <<assetMutex, assetCache, s3vars, fsvars, rgvars, jpvars, lkvars, sdvars, pxvars>>

\* assetMutex.Lock() of lookupAsset.
openjpegLookupAssetLock(p) ==
  /\ opc[p] = "lookupAsset:assetMutex"
  /\ ~assetMutex
  /\ assetMutex' = TRUE
  /\ opc' = [opc EXCEPT ![p] = "lookupAsset:locked"]
  /\ UNCHANGED <<assetCache, ofile, oret, s3vars, fsvars, rgvars, jpvars, lkvars, sdvars, pxvars>>

\* lookupAsset with assetMutex locked: the cached asset, or a new one that is
\* cached if it could be read; err is what asset.read returns.
openjpegLookupAsset(p, err) ==
  /\ opc[p] = "lookupAsset:locked"
  /\ IF ofile[p] \notin assetCache /\ err # "nil"
       THEN /\ oret' = [oret EXCEPT ![p] = err]
            /\ UNCHANGED <<assetCache, assetMutex>>
       ELSE /\ assetCache' = assetCache \cup {ofile[p]}
            /\ assetMutex' = FALSE
            /\ oret' = [oret EXCEPT ![p] = "nil"]
  /\ opc' = [opc EXCEPT ![p] = "idle"]
  /\ UNCHANGED <<ofile, s3vars, fsvars, rgvars, jpvars, lkvars, sdvars, pxvars>>

\* The empty assetCache and the unlocked assetMutex.
InitOJ0 ==
  /\ assetMutex = FALSE
  /\ assetCache = {}
  /\ opc = [p \in Procs |-> "idle"]
  /\ ofile = [p \in Procs |-> "none"]
  /\ oret = [p \in Procs |-> "none"]


\* ---------------------------------------------------- rais-server shutdown

\* The most plugins with a teardown function, and the most requests in flight.
MaxPlugins == 2
MaxRequests == 2

Plugins == 1..MaxPlugins

\* What every shutdown action leaves alone.
sdrest == <<s3vars, fsvars, rgvars, jpvars, lkvars, ojvars, pxvars>>

\* The process runs: no panic, no fatal error, main has not returned.
Running == ~panicked /\ mpc \notin {"exited", "fatal"}

\* srv.ListenAndServe() binds the address and serves.
ListenAndServe ==
  /\ Running
  /\ mpc = "main"
  /\ srv = "new"
  /\ srv' = "serving"
  /\ mpc' = "ListenAndServe"
  /\ UNCHANGED <<teardownPlugins, active, hpc, torn, wait, panicked, sdrest>>

\* srv.ListenAndServe() returns an error other than http.ErrServerClosed, and
\* Logger.Fatalf ends the process.
ListenAndServeFatal ==
  /\ Running
  /\ mpc = "main"
  /\ srv = "new"
  /\ mpc' = "fatal"
  /\ UNCHANGED <<teardownPlugins, srv, active, hpc, torn, wait, panicked, sdrest>>

\* A handler starts to serve a request.
ServeRequest ==
  /\ Running
  /\ srv = "serving"
  /\ active < MaxRequests
  /\ active' = active + 1
  /\ UNCHANGED <<teardownPlugins, srv, hpc, torn, wait, mpc, panicked, sdrest>>

\* A handler has served its request.
FinishRequest ==
  /\ Running
  /\ active > 0
  /\ active' = active - 1
  /\ UNCHANGED <<teardownPlugins, srv, hpc, torn, wait, mpc, panicked, sdrest>>

\* SIGINT or SIGTERM: the function given to interrupts.TrapIntTerm is run.
Signal ==
  /\ Running
  /\ hpc = "trapped"
  /\ hpc' = "wait.Add"
  /\ UNCHANGED <<teardownPlugins, srv, active, torn, wait, mpc, panicked, sdrest>>

\* wait.Add(1), the first statement of the function.
waitAdd ==
  /\ Running
  /\ hpc = "wait.Add"
  /\ wait' = wait + 1
  /\ hpc' = "srv.Shutdown"
  /\ UNCHANGED <<teardownPlugins, srv, active, torn, mpc, panicked, sdrest>>

\* srv.Shutdown(nil): net/http closes the listeners and returns if no
\* connection is active; if one is, it selects on ctx.Done(), and a method
\* call on the nil Context panics, which ends the process.
Shutdown ==
  /\ Running
  /\ hpc = "srv.Shutdown"
  /\ srv' = "closed"
  /\ IF active = 0
       THEN hpc' = "teardown" /\ UNCHANGED panicked
       ELSE panicked' = TRUE /\ UNCHANGED hpc
  /\ UNCHANGED <<teardownPlugins, active, torn, wait, mpc, sdrest>>

\* One turn of the loop over teardownPlugins: plug().
teardownPlugin ==
  /\ Running
  /\ hpc = "teardown"
  /\ Len(torn) < Len(teardownPlugins)
  /\ torn' = Append(torn, teardownPlugins[Len(torn) + 1])
  /\ UNCHANGED <<teardownPlugins, srv, active, hpc, wait, mpc, panicked, sdrest>>

\* wait.Done(), after the loop.
waitDone ==
  /\ Running
  /\ hpc = "teardown"
  /\ Len(torn) = Len(teardownPlugins)
  /\ wait' = wait - 1
  /\ hpc' = "returned"
  /\ UNCHANGED <<teardownPlugins, srv, active, torn, mpc, panicked, sdrest>>

\* srv.ListenAndServe() returns http.ErrServerClosed once Shutdown has been
\* called.
ListenAndServeReturn ==
  /\ Running
  /\ \/ mpc = "ListenAndServe"
     \/ mpc = "main"
  /\ srv = "closed"
  /\ mpc' = "wait.Wait"
  /\ UNCHANGED <<teardownPlugins, srv, active, hpc, torn, wait, panicked, sdrest>>

\* wait.Wait() returns when the counter is 0, and main returns.
waitWait ==
  /\ Running
  /\ mpc = "wait.Wait"
  /\ wait = 0
  /\ mpc' = "exited"
  /\ UNCHANGED <<teardownPlugins, srv, active, hpc, torn, wait, panicked, sdrest>>

\* The teardown functions of the loaded plugins, in load order.
TeardownLists ==
  {<<>>} \cup {<<a>> : a \in Plugins}
         \cup {t \in {<<a, b>> : a \in Plugins, b \in Plugins} : t[1] # t[2]}

\* main before srv.ListenAndServe(), with the signal function trapped.
InitShutdown0 ==
  /\ teardownPlugins = <<>>
  /\ srv = "new"
  /\ active = 0
  /\ hpc = "trapped"
  /\ torn = <<>>
  /\ wait = 0
  /\ mpc = "main"
  /\ panicked = FALSE


\* ------------------------------------------------ JP2 component samples

\* The most components of a decoded image and the most samples of one.
MaxComps == 4
MaxArea == 2

\* Sample values: in range, negative, and above 255.
Samples == {7, -1, 300}

\* uint8(point) for an int32: the low byte of its two's complement.
Uint8(v) == IF v >= 0 THEN v % 256 ELSE (256 - ((-v) % 256)) % 256

\* JP2ComponentData: the w*h samples of the component, each as a uint8.
JP2ComponentData(comp) ==
  [k \in 1..(comp.w * comp.h) |-> Uint8(comp.data[k])]

\* The image DecodeImage has when nothing has been built.
NoImage == [kind |-> "none", Pix |-> <<>>, Stride |-> 0, w |-> 0, h |-> 0]

\* DecodeImage runs into a Go runtime panic (index out of range).
PanickedImage == [kind |-> "panic", Pix |-> <<>>, Stride |-> 0, w |-> 0, h |-> 0]

\* The part of DecodeImage that builds the image from the decoded components:
\* image.Gray of component 0 if there are fewer than 3, and if not image.RGBA
\* of the first three, read at the indexes 0..width*height-1 of each.
DecodeImagePixels ==
  /\ xpc = "decoded"
  /\ xpc' = "built"
  /\ LET width == comps[1].w
         height == comps[1].h
         area == width * height
         red == JP2ComponentData(comps[1])
     IN IF Len(comps) < 3
          THEN pix' = [kind |-> "Gray", Pix |-> red, Stride |-> width,
                          w |-> width, h |-> height]
          ELSE LET green == JP2ComponentData(comps[2])
                   blue == JP2ComponentData(comps[3])
               IN IF Len(green) < area \/ Len(blue) < area
                    THEN pix' = PanickedImage
                    ELSE pix' =
                           [kind |-> "RGBA",
                            Pix |-> [k \in 1..(4 * area) |->
                                       LET i == (k - 1) \div 4
                                           c == (k - 1) % 4
                                       IN IF c = 0 THEN red[i + 1]
                                          ELSE IF c = 1 THEN green[i + 1]
                                          ELSE IF c = 2 THEN blue[i + 1]
                                          ELSE 255],
                            Stride |-> 4 * width, w |-> width, h |-> height]
  /\ UNCHANGED <<comps, s3vars, fsvars, rgvars, jpvars, lkvars, ojvars, sdvars>>

\* The components opj_decode can leave: each has its own width and height
\* (a subsampled component is smaller) and w*h samples.
Components ==
  UNION {[w : {d[1]}, h : {d[2]}, data : [1..(d[1] * d[2]) -> Samples]] :
           d \in {e \in (1..MaxArea) \X (1..MaxArea) : e[1] * e[2] <= MaxArea}}

\* The sequences of n components.
RECURSIVE CompsOfLen(_)
CompsOfLen(n) ==
  IF n = 0 THEN {<<>>}
  ELSE {Append(q, c) : q \in CompsOfLen(n - 1), c \in Components}

\* A decoded image of one component, not built yet.
InitPixels0 ==
  /\ comps = <<[w |-> 1, h |-> 1, data |-> <<7>>]>>
  /\ pix = NoImage
  /\ xpc = "decoded"

InitX0 == InitLock0 /\ InitOJ0 /\ InitShutdown0 /\ InitPixels0

\* ------------------------------------------------------ s3-images plugin

\* The deadline of the in-flight wait, in sleeps of 250 ms: 10 s / 250 ms.
TimeoutTicks == 40

S3Prefix == <<"s", "3", ":">>

Keys == {<<"a">>, <<"b">>}

\* The IIIF IDs requests carry: "", "s3", "abc", "s3:a", "s3:b".
RequestIDs == {<<>>, <<"s", "3">>, <<"a", "b", "c">>} \cup {S3Prefix \o k : k \in Keys}

\* ids[3:]
KeyOf(i) == SubSeq(i, 4, Len(i))

\* filepath.Join(s3cache, s3ID)
FlatPath(key) == <<s3cache, key>>

NoRes == [path |-> <<>>, err |-> "none"]

ErrSkipped == "plugins.ErrSkipped"

ErrTimeout == "timed out waiting for s3 download"

ErrDownload == "s3download error"

\* What purge logs when os.Remove fails.
ErrPurge == "Unable to purge cached file"

\* A goroutine that runs into a Go runtime panic (slice bounds out of range).
Panicked == [path |-> <<>>, err |-> "panic"]

Waiting(p) == pc[p] \in {"poll", "sleep"}

isDownloading(s3ID) == s3ID \in downloading

\* fileutil.MustNotExist(path)
MustNotExist(path) == path \notin files

\* The call returns r to its caller.
Finish(p, r) ==
  /\ pc' = [pc EXCEPT ![p] = "done"]
  /\ res' = [res EXCEPT ![p] = r]
  /\ left' = [left EXCEPT ![p] = 0]
  /\ napped' = [napped EXCEPT ![p] = FALSE]

\* IDToPath up to the start of the wait loop: the prefix test ids[:3] != "s3:"
\* (a slice past the end of ids panics) and the deadline time.Now().Add(10 s).
IDToPathEnter(p, i) ==
  /\ pc[p] = "idle"
  /\ op' = [op EXCEPT ![p] = "IDToPath"]
  /\ id' = [id EXCEPT ![p] = i]
  /\ IF Len(i) < 3
       THEN Finish(p, Panicked)
       ELSE IF SubSeq(i, 1, 3) # S3Prefix
         THEN Finish(p, [path |-> <<>>, err |-> ErrSkipped])
         ELSE /\ pc' = [pc EXCEPT ![p] = "poll"]
              /\ left' = [left EXCEPT ![p] = TimeoutTicks]
              /\ UNCHANGED <<res, napped>>
  /\ UNCHANGED <<dlerr, cur, downloading, assets, files>>
  /\ UNCHANGED <<cachedAtStart, nfetch, nfail, nok, hit, sawClear, aok, fsvars, rgvars, jpvars, xvars>>

\* The loop condition: for isDownloading(s3ID) { ... }
IDToPathPoll(p) ==
  /\ pc[p] = "poll"
  /\ IF isDownloading(KeyOf(id[p]))
       THEN /\ pc' = [pc EXCEPT ![p] = "sleep"]
            /\ napped' = [napped EXCEPT ![p] = FALSE]
            /\ UNCHANGED left
       ELSE /\ pc' = [pc EXCEPT ![p] = "stat"]
            /\ left' = [left EXCEPT ![p] = 0]
            /\ UNCHANGED napped
  /\ UNCHANGED <<op, id, res, dlerr, cur, downloading, assets, files>>
  /\ UNCHANGED <<cachedAtStart, nfetch, nfail, nok, hit, sawClear, aok, fsvars, rgvars, jpvars, xvars>>

\* IDToPathWake with the deadline test off by one (not Before instead of After).
IDToPathWake_OffByOne(p) ==
  /\ pc[p] = "sleep"
  /\ napped[p]
  /\ IF left[p] <= 0
       THEN Finish(p, [path |-> <<>>, err |-> ErrTimeout])
       ELSE /\ pc' = [pc EXCEPT ![p] = "poll"]
            /\ napped' = [napped EXCEPT ![p] = FALSE]
            /\ UNCHANGED <<left, res>>
  /\ UNCHANGED <<op, id, dlerr, cur, downloading, assets, files>>
  /\ UNCHANGED <<cachedAtStart, nfetch, nfail, nok, hit, sawClear, aok, fsvars, rgvars, jpvars, xvars>>

\* The loop body: time.Sleep(250 ms), then the deadline test
\* time.Now().After(timeout), made before the flag is read again.
IDToPathWake(p) ==
  /\ pc[p] = "sleep"
  /\ napped[p]
  /\ IF left[p] < 0
       THEN Finish(p, [path |-> <<>>, err |-> ErrTimeout])
       ELSE /\ pc' = [pc EXCEPT ![p] = "poll"]
            /\ napped' = [napped EXCEPT ![p] = FALSE]
            /\ UNCHANGED <<left, res>>
  /\ UNCHANGED <<op, id, dlerr, cur, downloading, assets, files>>
  /\ UNCHANGED <<cachedAtStart, nfetch, nfail, nok, hit, sawClear, aok, fsvars, rgvars, jpvars, xvars>>

\* IDToPathStat without the cache test: every request pulls the image.
IDToPathStat_IgnoreCache(p) ==
  /\ pc[p] = "stat"
  /\ pc' = [pc EXCEPT ![p] = "set"]
  /\ UNCHANGED <<res, left, napped, hit>>
  /\ UNCHANGED <<op, id, dlerr, cur, downloading, assets, files>>
  /\ UNCHANGED <<cachedAtStart, nfetch, nfail, nok, sawClear, aok, fsvars, rgvars, jpvars, xvars>>

\* if fileutil.MustNotExist(path) { err = pullImage(s3ID, path) } else
\* { cached file found }; return path, err
IDToPathStat(p) ==
  /\ pc[p] = "stat"
  /\ IF MustNotExist(FlatPath(KeyOf(id[p])))
       THEN /\ pc' = [pc EXCEPT ![p] = "set"]
            /\ UNCHANGED <<res, left, napped, hit>>
       ELSE /\ Finish(p, [path |-> FlatPath(KeyOf(id[p])), err |-> "nil"])
            /\ hit' = [hit EXCEPT ![p] = TRUE]
  /\ UNCHANGED <<op, id, dlerr, cur, downloading, assets, files>>
  /\ UNCHANGED <<cachedAtStart, nfetch, nfail, nok, sawClear, aok, fsvars, rgvars, jpvars, xvars>>

\* pullImage's first statement; s3download is called next.
setIsDownloading(p) ==
  /\ pc[p] = "set"
  /\ downloading' = downloading \cup {KeyOf(id[p])}
  /\ pc' = [pc EXCEPT ![p] = "fetch"]
  /\ nfetch' = [nfetch EXCEPT ![KeyOf(id[p])] = @ + 1]
  /\ UNCHANGED <<op, id, left, napped, res, dlerr, cur, assets, files>>
  /\ UNCHANGED <<cachedAtStart, nfail, nok, hit, sawClear, aok, fsvars, rgvars, jpvars, xvars>>

\* s3download(s3ID, path) returns: the whole file is at path on success,
\* nothing is left at path on failure.
s3download(p, ok) ==
  /\ pc[p] = "fetch"
  /\ pc' = [pc EXCEPT ![p] = "clear"]
  /\ IF ok
       THEN /\ files' = files \cup {FlatPath(KeyOf(id[p]))}
            /\ dlerr' = [dlerr EXCEPT ![p] = "nil"]
            /\ nok' = [nok EXCEPT ![KeyOf(id[p])] = @ + 1]
            /\ UNCHANGED nfail
       ELSE /\ dlerr' = [dlerr EXCEPT ![p] = ErrDownload]
            /\ nfail' = [nfail EXCEPT ![KeyOf(id[p])] = @ + 1]
            /\ UNCHANGED <<files, nok>>
  /\ UNCHANGED <<op, id, left, napped, res, cur, downloading, assets>>
  /\ UNCHANGED <<cachedAtStart, nfetch, hit, sawClear, aok, fsvars, rgvars, jpvars, xvars>>

\* clearIsDownloading called at the end of pullImage instead of deferred, after
\* an early return on error.
clearIsDownloading_OnSuccessOnly(p) ==
  /\ pc[p] = "clear"
  /\ downloading' = IF dlerr[p] = "nil" THEN downloading \ {KeyOf(id[p])} ELSE downloading
  /\ sawClear' = [q \in Procs |->
                    sawClear[q] \/ (/\ dlerr[p] = "nil"
                                    /\ pc[q] = "sleep"
                                    /\ id[q] = id[p]
                                    /\ left[q] >= 0)]
  /\ Finish(p, [path |-> FlatPath(KeyOf(id[p])), err |-> dlerr[p]])
  /\ UNCHANGED <<op, id, dlerr, cur, assets, files>>
  /\ UNCHANGED <<cachedAtStart, nfetch, nfail, nok, hit, aok, fsvars, rgvars, jpvars, xvars>>

\* IDToPath dropping pullImage's error: "pullImage(s3ID, path)" without "err =".
clearIsDownloading_DropErr(p) ==
  /\ pc[p] = "clear"
  /\ downloading' = downloading \ {KeyOf(id[p])}
  /\ sawClear' = [q \in Procs |->
                    sawClear[q] \/ (/\ pc[q] = "sleep"
                                    /\ id[q] = id[p]
                                    /\ left[q] >= 0)]
  /\ Finish(p, [path |-> FlatPath(KeyOf(id[p])), err |-> "nil"])
  /\ UNCHANGED <<op, id, dlerr, cur, assets, files>>
  /\ UNCHANGED <<cachedAtStart, nfetch, nfail, nok, hit, aok, fsvars, rgvars, jpvars, xvars>>

\* pullImage's deferred clearIsDownloading, then IDToPath's "return path, err".
clearIsDownloading(p) ==
  /\ pc[p] = "clear"
  /\ downloading' = downloading \ {KeyOf(id[p])}
  /\ sawClear' = [q \in Procs |->
                    sawClear[q] \/ (/\ pc[q] = "sleep"
                                    /\ id[q] = id[p]
                                    /\ left[q] >= 0)]
  /\ Finish(p, [path |-> FlatPath(KeyOf(id[p])), err |-> dlerr[p]])
  /\ UNCHANGED <<op, id, dlerr, cur, assets, files>>
  /\ UNCHANGED <<cachedAtStart, nfetch, nfail, nok, hit, aok, fsvars, rgvars, jpvars, xvars>>

\* ---------------------------------------------------------- asset registry

\* The IDs handed to lookupAsset: "s3:a", "nil:a", "x:a" (no such downloader),
\* "abc" (no scheme) and "s3:" (no key).
AssetIDs == {S3Prefix \o <<"a">>, <<"n", "i", "l", ":", "a">>, <<"x", ":", "a">>,
             <<"a", "b", "c">>, S3Prefix}

\* dlers: the downloader registered for a scheme, "nil" (a nil func) if none.
dlers(dlType) ==
  IF dlType = <<"s", "3">> THEN "fetchS3"
  ELSE IF dlType = <<"n", "i", "l">> THEN "fetchNil"
  ELSE "nil"

\* The one badAsset object; obj tells the asset objects apart, as their
\* addresses do.
badAsset == [id |-> <<>>, key |-> <<>>, path |-> <<>>, downloader |-> "fetchNil", obj |-> 0]

NoAsset == [id |-> <<>>, key |-> <<>>, path |-> <<>>, downloader |-> "none", obj |-> -1]

\* newAsset(id); o is the object it allocates.
newAsset(i, o) ==
  LET parts == SplitN2(i)
  IN IF Len(parts) # 2
       THEN badAsset
       ELSE [id |-> i, key |-> parts[2], path |-> makePath(parts[2]),
             downloader |-> dlers(parts[1]), obj |-> o]

valid(a) == a.key # <<>> /\ a.downloader # "nil"

\* lookupAsset that stores the new asset without asking whether it is valid.
lookupAsset_StoreInvalid(p, i) ==
  /\ pc[p] = "idle"
  /\ op' = [op EXCEPT ![p] = "download"]
  /\ id' = [id EXCEPT ![p] = i]
  /\ LET ok == \E a \in assets : a.id = i
         a == IF ok THEN CHOOSE x \in assets : x.id = i ELSE newAsset(i, p)
     IN /\ cur' = [cur EXCEPT ![p] = a]
        /\ aok' = [aok EXCEPT ![p] = ok]
        /\ assets' = IF ~ok THEN assets \cup {a} ELSE assets
  /\ pc' = [pc EXCEPT ![p] = "astat"]
  /\ UNCHANGED <<left, napped, res, dlerr, downloading, files>>
  /\ UNCHANGED <<cachedAtStart, nfetch, nfail, nok, hit, sawClear, fsvars, rgvars, jpvars, xvars>>

\* lookupAsset, the whole body under assetMutex; the caller goes on to
\* a.download().
lookupAsset(p, i) ==
  /\ pc[p] = "idle"
  /\ op' = [op EXCEPT ![p] = "download"]
  /\ id' = [id EXCEPT ![p] = i]
  /\ LET ok == \E a \in assets : a.id = i
         a == IF ok THEN CHOOSE x \in assets : x.id = i ELSE newAsset(i, p)
     IN /\ cur' = [cur EXCEPT ![p] = a]
        /\ aok' = [aok EXCEPT ![p] = ok]
        /\ assets' = IF ~ok /\ valid(a) THEN assets \cup {a} ELSE assets
  /\ pc' = [pc EXCEPT ![p] = "astat"]
  /\ UNCHANGED <<left, napped, res, dlerr, downloading, files>>
  /\ UNCHANGED <<cachedAtStart, nfetch, nfail, nok, hit, sawClear, fsvars, rgvars, jpvars, xvars>>

\* a.download() up to the call of the downloader: os.Stat(a.path).
assetDownloadStat(p) ==
  /\ pc[p] = "astat"
  /\ IF cur[p].path \in files
       THEN /\ Finish(p, [path |-> cur[p].path, err |-> "nil"])
            /\ hit' = [hit EXCEPT ![p] = TRUE]
       ELSE /\ pc' = [pc EXCEPT ![p] = "afetch"]
            /\ UNCHANGED <<res, left, napped, hit>>
  /\ UNCHANGED <<op, id, dlerr, cur, downloading, assets, files>>
  /\ UNCHANGED <<cachedAtStart, nfetch, nfail, nok, sawClear, aok, fsvars, rgvars, jpvars, xvars>>

\* return a.downloader(a): fetchS3 leaves the file at a.path when it succeeds,
\* fetchNil fetches nothing, and calling a nil downloader panics.
assetDownloader(p, ok) ==
  /\ pc[p] = "afetch"
  /\ IF cur[p].downloader = "nil"
       THEN /\ Finish(p, Panicked)
            /\ UNCHANGED files
       ELSE /\ Finish(p, [path |-> cur[p].path, err |-> IF ok THEN "nil" ELSE ErrDownload])
            /\ files' = IF ok /\ cur[p].downloader = "fetchS3"
                          THEN files \cup {cur[p].path}
                          ELSE files
  /\ UNCHANGED <<op, id, dlerr, cur, downloading, assets>>
  /\ UNCHANGED <<cachedAtStart, nfetch, nfail, nok, hit, sawClear, aok, fsvars, rgvars, jpvars, xvars>>

\* a.purge() on an asset of the registry: os.Remove(a.path); removeErr is the
\* error of os.Remove when the file is there and cannot be removed, which is
\* logged. No lock is taken and assets is not written.
purge(p, a, removeErr) ==
  /\ pc[p] = "idle"
  /\ a \in assets
  /\ op' = [op EXCEPT ![p] = "purge"]
  /\ id' = [id EXCEPT ![p] = a.id]
  /\ cur' = [cur EXCEPT ![p] = a]
  /\ IF a.path \in files /\ removeErr
       THEN /\ Finish(p, [path |-> a.path, err |-> ErrPurge])
            /\ UNCHANGED files
       ELSE /\ Finish(p, [path |-> a.path, err |-> "nil"])
            /\ files' = files \ {a.path}
  /\ UNCHANGED <<dlerr, downloading, assets>>
  /\ UNCHANGED <<cachedAtStart, nfetch, nfail, nok, hit, sawClear, aok, fsvars, rgvars, jpvars, xvars>>

\* 250 ms pass: every deadline comes nearer and every sleeper has slept.
Tick ==
  /\ \E p \in Procs : Waiting(p)
  /\ left' = [p \in Procs |-> IF Waiting(p) /\ left[p] >= 0 THEN left[p] - 1 ELSE left[p]]
  /\ napped' = [p \in Procs |-> IF pc[p] = "sleep" THEN TRUE ELSE napped[p]]
  /\ UNCHANGED <<pc, op, id, res, dlerr, cur, downloading, assets, files>>
  /\ UNCHANGED <<cachedAtStart, nfetch, nfail, nok, hit, sawClear, aok, fsvars, rgvars, jpvars, xvars>>

\* The cache directory may hold files of earlier runs.
StartFiles == {FlatPath(<<"b">>), makePath(<<"a">>)}

\* The answers of the five Supports* methods before any was asked.
NoSupports == [Region |-> FALSE, Size |-> FALSE, Rotation |-> FALSE, Quality |-> FALSE,
               Format |-> FALSE]

\* The feature gate before any request: the Level 0 set, no URL checked yet.
InitFS0 ==
  /\ fs = FeaturesLevel0
  /\ u = BaseURL
  /\ gated = FALSE
  /\ supported = FALSE
  /\ supports = NoSupports

InitS3 ==
  /\ pc = [p \in Procs |-> "idle"]
  /\ op = [p \in Procs |-> "none"]
  /\ id = [p \in Procs |-> <<>>]
  /\ left = [p \in Procs |-> 0]
  /\ napped = [p \in Procs |-> FALSE]
  /\ res = [p \in Procs |-> NoRes]
  /\ dlerr = [p \in Procs |-> "nil"]
  /\ cur = [p \in Procs |-> NoAsset]
  /\ downloading = {}
  /\ assets = {}
  /\ files \in SUBSET StartFiles
  /\ cachedAtStart = files
  /\ nfetch = [k \in Keys |-> 0]
  /\ nfail = [k \in Keys |-> 0]
  /\ nok = [k \in Keys |-> 0]
  /\ hit = [p \in Procs |-> FALSE]
  /\ sawClear = [p \in Procs |-> FALSE]
  /\ aok = [p \in Procs |-> FALSE]

Init == InitS3 /\ InitFS0 /\ InitRegion0 /\ InitJP2 /\ InitX0

Next ==
  \/ \E p \in Procs, i \in RequestIDs : IDToPathEnter(p, i)
  \/ \E p \in Procs : IDToPathPoll(p)
  \/ \E p \in Procs : IDToPathWake(p)
  \/ \E p \in Procs : IDToPathStat(p)
  \/ \E p \in Procs : setIsDownloading(p)
  \/ \E p \in Procs, ok \in BOOLEAN : s3download(p, ok)
  \/ \E p \in Procs : clearIsDownloading(p)
  \/ \E p \in Procs, i \in AssetIDs : lookupAsset(p, i)
  \/ \E p \in Procs : assetDownloadStat(p)
  \/ \E p \in Procs, ok \in BOOLEAN : assetDownloader(p, ok)
  \/ \E p \in Procs, a \in assets, removeErr \in BOOLEAN : purge(p, a, removeErr)
  \/ Tick

Spec == Init /\ [][Next]_vars

InitFS ==
  /\ InitS3
  /\ files = {}
  /\ \E k \in 0..MaxEdits : fs \in FeatureSetsWithin(k) /\ u \in URLsWithin(MaxEdits - k)
  /\ gated = FALSE
  /\ supported = FALSE
  /\ supports = NoSupports
  /\ InitRegion0
  /\ InitJP2
  /\ InitX0

\* The handler's feature gate: fs.Supported(u) on the parsed URL, and each of
\* the five Supports* methods on its part of the URL.
Gate ==
  /\ ~gated
  /\ supported' = Supported(fs, u)
  /\ supports' = [Region |-> SupportsRegion(fs, u.Region),
                  Size |-> SupportsSize(fs, u.Size),
                  Rotation |-> SupportsRotation(fs, u.Rotation),
                  Quality |-> SupportsQuality(fs, u.Quality),
                  Format |-> SupportsFormat(fs, u.Format)]
  /\ gated' = TRUE
  /\ UNCHANGED <<fs, u, s3vars, rgvars, jpvars, xvars>>

SpecFS == InitFS /\ [][Gate]_vars

InitRegion ==
  /\ InitS3
  /\ files = {}
  /\ InitFS0
  /\ written \in Written
  /\ regionStr = Render(written)
  /\ region = ZeroRegion
  /\ regionValid = FALSE
  /\ rpc = "new"
  /\ InitJP2
  /\ InitX0

NextRegion ==
  \/ StringToRegionCall
  \/ \E r \in RegionLiterals : RegionLiteral(r)
  \/ ValidCall

SpecRegion == InitRegion /\ [][NextRegion]_vars

InitDecode == InitS3 /\ files = {} /\ InitFS0 /\ InitRegion0 /\ InitJP2 /\ InitX0

NextDecode ==
  \/ SetScale
  \/ SetResizeWH
  \/ SetCrop
  \/ \E okC, okS, okH \in BOOLEAN : GetDimensionsCall(okC, okS, okH)
  \/ \E lv \in 0..MaxLevel, okC, okS, okH \in BOOLEAN : DecodeImageBegin(lv, okC, okS, okH)
  \/ \E okC, okF, okS, okH \in BOOLEAN : SetDynamicProgressionLevel(okC, okF, okS, okH)
  \/ \E okC, okS, okH, okA, okD, okE \in BOOLEAN :
       DecodeImageEnd(okC, okS, okH, okA, okD, okE)

SpecDecode == InitDecode /\ [][NextDecode]_vars

\* A call that has been made runs on until it returns.
FairSpecDecode ==
  /\ SpecDecode
  /\ WF_vars(\E okC, okF, okS, okH \in BOOLEAN : SetDynamicProgressionLevel(okC, okF, okS, okH))

InitLock == InitS3 /\ files = {} /\ InitFS0 /\ InitRegion0 /\ InitJP2 /\ InitX0

NextLock ==
  \/ \E p \in Lockers : tryFLockCall(p)
  \/ \E p \in Lockers : tryFLock(p)
  \/ \E p \in Lockers : tryFLockAcquire(p)
  \/ \E p \in Lockers : fLockCall(p)
  \/ \E p \in Lockers : fLock(p)
  \/ \E p \in Lockers : fLockAcquire(p)
  \/ \E p \in Lockers : fUnlockCall(p)
  \/ \E p \in Lockers : fUnlock(p)

SpecLock == InitLock /\ [][NextLock]_vars

\* Every goroutine that can run does run, a goroutine that waits for a mutex
\* gets it if it is free again and again, and every holder calls fUnlock.
FairSpecLock ==
  /\ SpecLock
  /\ \A p \in Lockers :
       /\ SF_vars(tryFLock(p))
       /\ SF_vars(tryFLockAcquire(p))
       /\ SF_vars(fLock(p))
       /\ SF_vars(fLockAcquire(p))
       /\ WF_vars(fUnlockCall(p))
       /\ SF_vars(fUnlock(p))

InitOJ == InitS3 /\ files = {} /\ InitFS0 /\ InitRegion0 /\ InitJP2 /\ InitX0

NextOJ ==
  \/ \E p \in Procs, f \in Filenames : openjpegLookupAssetCall(p, f)
  \/ \E p \in Procs : openjpegLookupAssetLock(p)
  \/ \E p \in Procs, err \in ReadErrors : openjpegLookupAsset(p, err)

SpecOJ == InitOJ /\ [][NextOJ]_vars

InitShutdown ==
  /\ InitS3
  /\ files = {}
  /\ InitFS0
  /\ InitRegion0
  /\ InitJP2
  /\ InitLock0
  /\ InitOJ0
  /\ InitPixels0
  /\ teardownPlugins \in TeardownLists
  /\ srv = "new"
  /\ active = 0
  /\ hpc = "trapped"
  /\ torn = <<>>
  /\ wait = 0
  /\ mpc = "main"
  /\ panicked = FALSE

NextShutdown ==
  \/ ListenAndServe
  \/ ListenAndServeFatal
  \/ ServeRequest
  \/ FinishRequest
  \/ Signal
  \/ waitAdd
  \/ Shutdown
  \/ teardownPlugin
  \/ waitDone
  \/ ListenAndServeReturn
  \/ waitWait

SpecShutdown == InitShutdown /\ [][NextShutdown]_vars

InitPixels ==
  /\ InitS3
  /\ files = {}
  /\ InitFS0
  /\ InitRegion0
  /\ InitJP2
  /\ InitLock0
  /\ InitOJ0
  /\ InitShutdown0
  /\ \E n \in 1..MaxComps : comps \in CompsOfLen(n)
  /\ pix = NoImage
  /\ xpc = "decoded"

SpecPixels == InitPixels /\ [][DecodeImagePixels]_vars

\* The Go scheduler runs every goroutine that can run and time goes on; nothing
\* makes a download end.
FairSpec ==
  /\ Spec
  /\ WF_vars(Tick)
  /\ \A p \in Procs : WF_vars(IDToPathPoll(p)) /\ WF_vars(IDToPathWake(p))

\* -------------------------------------------------- claims on the s3 plugin

\* strings.HasPrefix(i, "s3:")
HasS3Prefix(i) == Len(i) >= 3 /\ SubSeq(i, 1, 3) = S3Prefix

IsS3Call(p) == op[p] = "IDToPath" /\ HasS3Prefix(id[p])

Fetching(k) == {p \in Procs : IsS3Call(p) /\ pc[p] = "fetch" /\ KeyOf(id[p]) = k}

Quiet == \A p \in Procs : pc[p] \in {"idle", "done"}

\* C1: for every key k, at no time are two downloads (s3download) of k running
\* at once.
C1_SingleFlight == \A k \in Keys : Cardinality(Fetching(k)) <= 1

\* C2: for a key k with no cached file and no failing download, the concurrent
\* IDToPath calls for k start exactly one download of k: never more than one,
\* and exactly one (which put the file in the cache) once all calls returned.
C2_ExactlyOneDownload ==
  \A k \in Keys :
    (/\ FlatPath(k) \notin cachedAtStart
     /\ nfail[k] = 0
     /\ \E p \in Procs : IsS3Call(p) /\ KeyOf(id[p]) = k)
    => /\ nfetch[k] <= 1
       /\ Quiet => (nfetch[k] = 1 /\ nok[k] = 1)

\* C3: IDToPath never returns a path with a nil error for key k while a
\* download of k is still running.
C3_NoReturnDuringDownload ==
  [][\A p \in Procs :
       (/\ pc[p] # "done"
        /\ pc'[p] = "done"
        /\ IsS3Call(p)'
        /\ res'[p].err = "nil")
       => Fetching(KeyOf(id[p]))' \ {p} = {}]_vars

\* C4 as stated: a waiter whose key's flag cleared before its deadline goes on
\* to the cache check, so it does not return the timeout error.
C4_ClearBeforeDeadlineProceeds ==
  \A p \in Procs : sawClear[p] => ~(pc[p] = "done" /\ res[p].err = ErrTimeout)

C4Step(p) ==
  /\ (Waiting(p) /\ pc'[p] = "stat")
       => (pc[p] = "poll" /\ ~isDownloading(KeyOf(id[p])))
  /\ (pc[p] = "poll" /\ isDownloading(KeyOf(id[p])) /\ pc'[p] # "poll")
       => pc'[p] = "sleep"
  /\ (pc[p] = "sleep" /\ pc'[p] # "sleep")
       => /\ napped[p]
          /\ IF left[p] < 0
               THEN pc'[p] = "done" /\ res'[p] = [path |-> <<>>, err |-> ErrTimeout]
               ELSE pc'[p] = "poll" /\ res'[p] = res[p]
  /\ (Waiting(p) /\ pc'[p] = "done") => (pc[p] = "sleep" /\ left[p] < 0)

\* C4 (amended): a request that finds its key in flight sleeps 250 ms at a time;
\* at each wake-up the deadline is tested first: past the deadline it returns
\* the timeout error with an empty path, whether or not the flag has cleared
\* during that sleep; otherwise it reads the flag again and goes on to the cache
\* check as soon as it reads it clear. The wait always ends, even when the
\* download never clears the flag.
C4_PollingWait ==
  /\ [][\A p \in Procs : C4Step(p)]_vars
  /\ \A p \in Procs : Waiting(p) ~> ~Waiting(p)

\* C4 witness: a waiter timed out although the flag cleared before its deadline.
C4_Witness ==
  \E p \in Procs : pc[p] = "done" /\ res[p].err = ErrTimeout /\ sawClear[p]

\* C5: the key is registered when its fetch starts, unregistered when its
\* pullImage returns (on success and on failure), registered only while some
\* pullImage of it runs, and the registry is empty once every call returned.
C5_Registration ==
  /\ [](\A k \in downloading :
          \E p \in Procs : IsS3Call(p) /\ pc[p] \in {"fetch", "clear"} /\ KeyOf(id[p]) = k)
  /\ [](Quiet => downloading = {})
  /\ [][\A p \in Procs :
          /\ (IsS3Call(p) /\ pc'[p] = "fetch" /\ pc[p] # "fetch")
               => KeyOf(id[p]) \in downloading'
          /\ (IsS3Call(p) /\ pc[p] = "clear" /\ pc'[p] # "clear")
               => KeyOf(id[p]) \notin downloading']_vars

\* C5 witness: a pullImage has returned after a failed fetch.
C5_Witness ==
  \E p \in Procs : pc[p] = "done" /\ res[p].err = ErrDownload /\ downloading = {}

\* C6: a resolver that finds the cache file present returns its path with a
\* nil error, calls no downloader and leaves the in-flight registry (and the
\* files) alone, in IDToPath and in asset.download.
C6_CacheHit ==
  [][\A p \in Procs :
       /\ (pc[p] = "stat" /\ FlatPath(KeyOf(id[p])) \in files /\ pc'[p] # "stat")
            => /\ pc'[p] = "done"
               /\ res'[p] = [path |-> FlatPath(KeyOf(id[p])), err |-> "nil"]
               /\ UNCHANGED <<downloading, nfetch, files>>
       /\ (pc[p] = "astat" /\ cur[p].path \in files /\ pc'[p] # "astat")
            => /\ pc'[p] = "done"
               /\ res'[p] = [path |-> cur[p].path, err |-> "nil"]
               /\ UNCHANGED <<downloading, nfetch, files>>]_vars

\* C6 witness: an IDToPath call and an asset.download call both returned on
\* the cache-hit branch.
C6_Witness ==
  \E p, q \in Procs :
    /\ op[p] = "IDToPath" /\ pc[p] = "done" /\ hit[p]
    /\ op[q] = "download" /\ pc[q] = "done" /\ hit[q]

\* C7: a call whose download failed returns a non-nil error, and as long as no
\* download of the key has succeeded there is no file at its cache path and no
\* request takes the cache-hit branch for it.
C7_FailedDownload ==
  /\ \A p \in Procs :
       (IsS3Call(p) /\ pc[p] = "done" /\ dlerr[p] = ErrDownload) => res[p].err # "nil"
  /\ \A k \in Keys :
       (nok[k] = 0 /\ FlatPath(k) \notin cachedAtStart)
       => /\ FlatPath(k) \notin files
          /\ \A p \in Procs : (IsS3Call(p) /\ KeyOf(id[p]) = k) => ~hit[p]

\* C7 witness: a download failed, its caller returned, and a later request for
\* the same key is past the cache check.
C7_Witness ==
  \E p, q \in Procs :
    /\ IsS3Call(p) /\ pc[p] = "done" /\ dlerr[p] = ErrDownload
    /\ IsS3Call(q) /\ id[q] = id[p] /\ pc[q] = "set"
    /\ nfetch[KeyOf(id[p])] = 1

\* C8: the path IDToPath returns for key k is the sharded path
\* makePath(k) = <S3Cache>/<b1>/<b2>/<k>, with b1 and b2 in 0..99.
C8_ShardedPath ==
  \A p \in Procs :
    (IsS3Call(p) /\ pc[p] = "done" /\ res[p].err = "nil")
    => /\ res[p].path = makePath(KeyOf(id[p]))
       /\ HashVal(KeyOf(id[p])) % 100 \in 0..99
       /\ (HashVal(KeyOf(id[p])) \div 100) % 100 \in 0..99

\* C9: for every ID that does not begin with "s3:", the empty ID and IDs of
\* fewer than three characters included, IDToPath returns ("", ErrSkipped).
C9_NonS3Skipped ==
  \A p \in Procs :
    (op[p] = "IDToPath" /\ ~HasS3Prefix(id[p]))
    => (pc[p] = "done" /\ res[p] = [path |-> <<>>, err |-> ErrSkipped])

\* ------------------------------------------------ claims on the feature gate

AllFamilies(f, x) ==
  /\ SupportsRegion(f, x.Region)
  /\ SupportsSize(f, x.Size)
  /\ SupportsRotation(f, x.Rotation)
  /\ SupportsQuality(f, x.Quality)
  /\ SupportsFormat(f, x.Format)

\* C10: fs.Supported(u) is true exactly when SupportsRegion, SupportsSize,
\* SupportsRotation, SupportsQuality and SupportsFormat are all true of u's
\* parts, and setting or clearing a field outside the five families does not
\* change it.
C10_SupportedIsConjunction ==
  gated =>
    /\ supported <=> AllFamilies(fs, u)
    /\ \A name \in OtherFields : Supported([fs EXCEPT ![name] = ~@], u) = supported

\* C10 witness: a request rejected for its format alone.
C10_Witness ==
  /\ gated
  /\ ~supported
  /\ SupportsRegion(fs, u.Region)
  /\ SupportsSize(fs, u.Size)
  /\ SupportsRotation(fs, u.Rotation)
  /\ SupportsQuality(fs, u.Quality)
  /\ u.Region.Type = "RTPixel"

\* C11: a mirrored rotation is unsupported when Mirroring is false; otherwise
\* 0 degrees is supported, 90, 180 and 270 degrees are supported iff
\* RotationBy90s or RotationArbitrary, and any other angle iff
\* RotationArbitrary.
C11_SupportsRotation ==
  gated =>
    LET r == u.Rotation
    IN IF r.Mirror /\ ~fs.Mirroring THEN ~supports.Rotation
       ELSE IF r.Degrees = 0 THEN supports.Rotation
       ELSE IF r.Degrees \in {90, 180, 270}
         THEN supports.Rotation <=> (fs.RotationBy90s \/ fs.RotationArbitrary)
         ELSE supports.Rotation <=> fs.RotationArbitrary

\* C11 witness: a mirrored quarter turn refused for the mirroring alone.
C11_Witness ==
  /\ gated
  /\ u.Rotation = [Mirror |-> TRUE, Degrees |-> 90]
  /\ fs.RotationBy90s
  /\ ~fs.Mirroring
  /\ ~supports.Rotation

\* C12: a pixel region is supported iff RegionByPx, a percent region iff
\* RegionByPct, full and square regions always.
C12_SupportsRegion ==
  gated =>
    /\ u.Region.Type = "RTPixel" => (supports.Region <=> fs.RegionByPx)
    /\ u.Region.Type = "RTPercent" => (supports.Region <=> fs.RegionByPct)
    /\ u.Region.Type \in {"RTFull", "RTSquare"} => supports.Region

\* C12 witness: a percent region refused by a set that takes pixel regions.
C12_Witness ==
  /\ gated
  /\ u.Region.Type = "RTPercent"
  /\ fs.RegionByPx
  /\ ~fs.RegionByPct
  /\ ~supports.Region

\* C13: "w," is supported iff SizeByW, ",h" iff SizeByH, "pct:n" iff SizeByPct,
\* "w,h" iff SizeByForcedWh, "!w,h" iff SizeByWh, full and max always.
C13_SupportsSize ==
  gated =>
    /\ u.Size.Type = "STScaleToWidth" => (supports.Size <=> fs.SizeByW)
    /\ u.Size.Type = "STScaleToHeight" => (supports.Size <=> fs.SizeByH)
    /\ u.Size.Type = "STScalePercent" => (supports.Size <=> fs.SizeByPct)
    /\ u.Size.Type = "STExact" => (supports.Size <=> fs.SizeByForcedWh)
    /\ u.Size.Type = "STBestFit" => (supports.Size <=> fs.SizeByWh)
    /\ u.Size.Type \in {"STFull", "STMax"} => supports.Size

\* C13 witness: an exact size refused by a set that takes best-fit sizes.
C13_Witness ==
  /\ gated
  /\ u.Size.Type = "STExact"
  /\ fs.SizeByWh
  /\ ~fs.SizeByForcedWh
  /\ ~supports.Size

\* C14: color is supported iff Color, gray iff Gray, bitonal iff Bitonal,
\* default and native both iff Default, and no other quality is supported.
C14_SupportsQuality ==
  gated =>
    /\ u.Quality = "QColor" => (supports.Quality <=> fs.Color)
    /\ u.Quality = "QGray" => (supports.Quality <=> fs.Gray)
    /\ u.Quality = "QBitonal" => (supports.Quality <=> fs.Bitonal)
    /\ u.Quality \in {"QDefault", "QNative"} => (supports.Quality <=> fs.Default)
    /\ u.Quality \notin {"QColor", "QGray", "QBitonal", "QDefault", "QNative"}
         => ~supports.Quality

\* C14 witness: the native quality accepted by a set with Default.
C14_Witness ==
  /\ gated
  /\ u.Quality = "QNative"
  /\ fs.Default
  /\ supports.Quality

\* The FeatureSet field that answers for a format, "" for a format outside the
\* seven.
FormatField(fmt) ==
  CASE fmt = "FmtJPG" -> "Jpg"
    [] fmt = "FmtTIF" -> "Tif"
    [] fmt = "FmtPNG" -> "Png"
    [] fmt = "FmtGIF" -> "Gif"
    [] fmt = "FmtJP2" -> "Jp2"
    [] fmt = "FmtPDF" -> "Pdf"
    [] fmt = "FmtWEBP" -> "Webp"
    [] OTHER -> ""

\* C15: each of the seven formats is supported iff its own field is set, and
\* a format outside the seven is unsupported whatever the FeatureSet holds.
C15_SupportsFormat ==
  gated =>
    IF FormatField(u.Format) = ""
      THEN ~supports.Format
      ELSE supports.Format <=> fs[FormatField(u.Format)]

\* C15 witness: an unknown format refused by the set with every field true.
C15_Witness ==
  /\ gated
  /\ u.Format = "FmtUnknown"
  /\ fs = FeatureSet(Features)
  /\ ~supports.Format

\* The URL x with its region, size, rotation and quality replaced.
WithParts(x, r, sz, rot, q) ==
  [x EXCEPT !.Region = r, !.Size = sz, !.Rotation = rot, !.Quality = q]

\* C16: the Level 0 and Level 1 presets reject every URL whose format is not
\* JPG, whatever its region, size, rotation and quality; full/full/0/default.webp
\* under Level 1 is one of them.
C16_Level01OnlyJpg ==
  (gated /\ fs \in {FeaturesLevel0, FeaturesLevel1} /\ u.Format # "FmtJPG")
  => /\ ~supported
     /\ \A r \in Regions, sz \in Sizes, rot \in Rotations, q \in Qualities :
          ~Supported(fs, WithParts(u, r, sz, rot, q))

\* C16 witness: full/full/0/default.webp was refused under Level 1.
C16_Witness ==
  /\ gated
  /\ fs = FeaturesLevel1
  /\ u = [BaseURL EXCEPT !.Format = "FmtWEBP"]
  /\ ~supported

\* ---------------------------------------------------- claims on iiif.Region

\* C17: r.Valid() holds iff r's type is Full or Square, or r's type is Pixel
\* or Percent with W > 0 and H > 0; a pixel region with W = 0 or H = 0 and
\* Region{} are not valid.
C17_RegionValid ==
  rpc \in {"parsedChecked", "literalChecked"} =>
    /\ regionValid <=> \/ region.Type \in {"RTFull", "RTSquare"}
                       \/ /\ region.Type \in {"RTPixel", "RTPercent"}
                          /\ region.W > 0
                          /\ region.H > 0
    /\ (region.Type = "RTPixel" /\ (region.W = 0 \/ region.H = 0)) => ~regionValid
    /\ region = ZeroRegion => ~regionValid

\* C17 witness: "10,10,10,0", a pixel region with a width and no height, was
\* found not valid.
C17_Witness ==
  /\ rpc = "parsedChecked"
  /\ region.Type = "RTPixel"
  /\ region.W > 0
  /\ region.H = 0
  /\ ~regionValid

\* The value, in tenths, of a number as written.
NumValue(t) ==
  CASE t = <<"0">> -> 0
    [] t = <<"1", "0">> -> 100
    [] t = <<"7", ".", "5">> -> 75

\* C18: StringToRegion maps "full" to Full, "square" to Square, "x,y,w,h" to
\* Pixel and "pct:x,y,w,h" to Percent with X, Y, W, H the four numbers in the
\* order written, fractions kept; every other string gives a region that is
\* not valid.
C18_StringToRegion ==
  rpc \in {"parsed", "parsedChecked"} =>
    IF written.nums = <<>>
      THEN IF written.word = StrFull THEN region.Type = "RTFull"
           ELSE IF written.word = StrSquare THEN region.Type = "RTSquare"
           ELSE rpc = "parsedChecked" => ~regionValid
      ELSE IF Len(written.nums) = 4
        THEN /\ region.Type = IF written.pct THEN "RTPercent" ELSE "RTPixel"
             /\ region.X = NumValue(written.nums[1])
             /\ region.Y = NumValue(written.nums[2])
             /\ region.W = NumValue(written.nums[3])
             /\ region.H = NumValue(written.nums[4])
        ELSE rpc = "parsedChecked" => ~regionValid

\* C18 witness: "pct:7.5,0,10,7.5" was parsed.
C18_Witness ==
  /\ rpc = "parsed"
  /\ written.pct
  /\ written.nums = <<<<"7", ".", "5">>, <<"0">>, <<"1", "0">>, <<"7", ".", "5">>>>
  /\ region = [Type |-> "RTPercent", X |-> 75, Y |-> 0, W |-> 100, H |-> 75]

\* -------------------------------------------------- claims on the JP2 decode

\* One step of SetDynamicProgressionLevel at level k: it ends the fallback with
\* codec, factor k and header all in place, or it failed and goes on to level
\* k - 1, or it failed at level 0 and returns the error.
C19Step ==
  (jpc = "level" /\ trace' # trace) =>
    /\ tried' = Append(tried, level)
    /\ jpc' = "header" =>
         /\ jerr' = "nil"
         /\ img'.codec /\ img'.image /\ img'.factor = level
         /\ trace'[Len(trace')].ok
    /\ jpc' = "level" =>
         /\ level > 0
         /\ level' = level - 1
         /\ ~trace'[Len(trace') - 1].ok
    /\ jpc' = "done" =>
         /\ level = 0
         /\ jerr' # "nil"
         /\ ~trace'[Len(trace')].ok
    /\ jpc' \in {"header", "level", "done"}

\* C19: SetDynamicProgressionLevel(L) tries the levels L, L-1, ..., 0 in
\* strictly decreasing order, one attempt per level, stops at the first level at
\* which codec setup, the resolution factor and the header read all succeed,
\* returns an error only if the attempt at level 0 failed, makes at most L+1
\* attempts, and always terminates.
C19_LevelFallback ==
  /\ [](/\ \A j \in 1..Len(tried) : tried[j] = reqLevel - (j - 1)
        /\ Len(tried) <= reqLevel + 1
        /\ jpc = "level" => (level >= 0 /\ level = reqLevel - Len(tried)))
  /\ [][C19Step]_vars
  /\ (jpc = "level") ~> (jpc # "level")

\* C19 witness: asked for level 2, the fallback succeeded at level 0 after the
\* attempts at levels 2 and 1 failed.
C19_Witness ==
  /\ jpc = "header"
  /\ reqLevel = 2
  /\ tried = <<2, 1, 0>>
  /\ img.factor = 0

\* The last successful native call of the given name among the first n calls
\* of the log, 0 if there is none.
LastStep(name, n) ==
  LET S == {j \in 1..n : trace[j].op = name /\ trace[j].ok}
  IN IF S = {} THEN 0 ELSE CHOOSE j \in S : \A k \in S : k <= j

\* The log after the header read the decode uses: the decode area when
\* cropping, the decode, the end of decompression.
TailSteps ==
  IF img.crop THEN <<"area", "decode", "end">> ELSE <<"decode", "end">>

\* What holds of every DecodeImage run that returned an image, whatever the
\* order of stream and codec: since the last cleanup (or the start), the codec
\* was configured, then the level set (when resizing), then the header read at
\* that level with the stream open; nothing in the run failed since; then the
\* decode area (when cropping), the decode and the end of decompression.
DecodeOrder ==
  LET n == Len(trace)
      h == LastStep("header", n)
      k == LastStep("cleanup", h)
      m == LastStep("DecodeImage", n)
      a == LastStep("stream", h)
      b == LastStep("codec", h)
      c == LastStep("level", h)
  IN /\ h > 0
     /\ a > k /\ a < h
     /\ b > k /\ b < h
     /\ img.resizeByPixels => (c > b /\ c < h /\ trace[h].lv = trace[c].lv)
     /\ ~img.resizeByPixels => LastStep("level", n) <= k
     /\ LastStep("level", n) < h
     /\ img.hdrFactor = trace[h].lv
     /\ \A j \in 1..n : (j > k /\ j > m) => trace[j].ok
     /\ n = h + Len(TailSteps)
     /\ \A j \in 1..Len(TailSteps) : trace[h + j].op = TailSteps[j]

\* The stream the decode uses was opened before its codec was configured.
StreamFirst ==
  LET h == LastStep("header", Len(trace))
  IN LastStep("stream", h) < LastStep("codec", h)

C21_ReleasedOnReturn ==
  jpc = "done" => (~img.stream /\ ~img.codec /\ ~img.image)

\* The error DecodeImage returns when the native call of a stage fails.
StageError(name) ==
  CASE name = "header" -> "failed to read the header"
    [] name = "area" -> "failed to set the decoded area"
    [] name = "decode" -> "failed to decode image"
    [] name = "end" -> "failed to close decompression"
    [] OTHER -> "nil"

Stages == {"header", "area", "decode", "end"}

\* The failed native call j of the log ended the decode: it is the last call
\* made, and DecodeImage returned no image and the error that names its stage.
EndsDecode(j) ==
  /\ j = Len(trace)
  /\ jpc = "done"
  /\ ~jimg
  /\ jerr = StageError(trace[j].op)

\* The failed native calls of the DecodeImage call in the log.
FailedStages ==
  {j \in 1..Len(trace) : /\ LastStep("DecodeImage", Len(trace)) > 0
                         /\ j > LastStep("DecodeImage", Len(trace))
                         /\ ~trace[j].ok
                         /\ trace[j].op \in Stages}

\* DecodeImage never returns both an image and an error.
ImageOrError == jpc = "done" => (jimg <=> jerr = "nil")

\* C22 as stated: every failed native call of a decode (header read, decode
\* area, decode, end decompress) ends it with a nil image and the error that
\* names its stage, and no later stage is executed.
C22_EveryFailureEndsDecode ==
  /\ ImageOrError
  /\ \A j \in FailedStages : EndsDecode(j)

\* C22 (amended): a failed native call of a decode ends it with a nil image
\* and the error that names its stage, and no later stage is executed, except
\* a header read that fails inside SetDynamicProgressionLevel above level 0:
\* the resources are cleaned up and the decode goes on at the next lower
\* level. DecodeImage never returns both an image and an error.
C22_FailureEndsDecodeOrFallsBack ==
  /\ ImageOrError
  /\ \A j \in FailedStages :
       \/ EndsDecode(j)
       \/ /\ trace[j].op = "header"
          /\ trace[j].lv > 0
          /\ j < Len(trace)
          /\ trace[j + 1].op = "cleanup"

\* C22 witness: after a header read failed at level 1 and the decode fell back
\* to level 0, opj_decode failed and DecodeImage returned its error.
C22_Witness ==
  /\ jpc = "done"
  /\ tried = <<1, 0>>
  /\ \E j \in 1..Len(trace) : trace[j] = Step("header", 1, FALSE)
  /\ jerr = "failed to decode image"
  /\ ~jimg

\* C30 as stated: resizeByPercent and resizeByPixels are never both true,
\* after SetScale and SetResizeWH calls and after DecodeImage has run.
C30_NeverBoth == ~(img.resizeByPercent /\ img.resizeByPixels)

\* C30 (amended): after any sequence of SetScale and SetResizeWH calls exactly
\* the mode of the last call is active; DecodeImage keeps resizeByPercent and,
\* when it is set, sets resizeByPixels too, so that once DecodeImage has got
\* the decode area in percent mode both are true.
C30_LastModeUntilDecode ==
  /\ img.resizeByPercent <=> lastSet = "SetScale"
  /\ jpc = "ready" => (img.resizeByPixels <=> lastSet = "SetResizeWH")
  /\ (jpc \in {"level", "header"} \/ jimg) => (img.resizeByPixels <=> lastSet # "none")

\* C30 witness: DecodeImage returned an image scaled by percent, asked for by
\* SetScale after SetResizeWH.
C30_Witness ==
  /\ jpc = "done"
  /\ jimg
  /\ lastSet = "SetScale"
  /\ nsets = 2
  /\ img.resizeByPercent
  /\ img.resizeByPixels

\* C23: tryFLock never blocks: every tryFLock call returns, whatever the other
\* callers of tryFLock, fLock and fUnlock on the asset do.
C23_TryFLockReturns ==
  \A p \in Lockers :
    (lpc[p] \in {"tryFLock:lockreader", "tryFLock:fs"}) ~> (lpc[p] = "idle")

\* The goroutines that hold the file lock: from the return of the tryFLock or
\* fLock call that got it to the fUnlock that gives it back.
Holders == {p \in Lockers : holds[p]}

\* C25: the file lock of an asset has at most one holder: while one caller
\* holds it no tryFLock returns true and no fLock returns.
C25_OneHolder ==
  /\ Cardinality(Holders) <= 1
  /\ \A p \in Holders : fsMutex = p /\ inUse
  /\ \A p \in Lockers \ Holders : lret[p] \in {"true", "locked"} => lpc[p] # "idle"

\* C25 witness: one caller holds the lock, the tryFLock of another has returned
\* false and a third waits in fLock.
C25_Witness ==
  \E p, q, r \in Lockers :
    /\ holds[p] /\ lpc[p] = "idle"
    /\ lret[q] = "false" /\ lpc[q] = "idle"
    /\ lpc[r] = "fLock:fs"

\* C26: the file lock is deadlock-free: every fLock call returns, under fair
\* scheduling and with every holder calling fUnlock.
C26_FLockReturns ==
  \A p \in Lockers :
    (lpc[p] \in {"fLock:lockreader", "fLock:fs"}) ~> (lpc[p] = "idle")

\* C27: the openjpeg lookupAsset releases assetMutex on every return path:
\* assetMutex is only locked while a lookupAsset call is between its Lock and
\* its return, so that later calls are not blocked.
C27_MutexReleasedOnReturn ==
  assetMutex => \E p \in Procs : opc[p] = "lookupAsset:locked"

\* An ID of the shape "scheme:key" with a known scheme and a key.
ValidID(i) ==
  \E scheme \in {<<"s", "3">>, <<"n", "i", "l">>} :
    /\ Len(i) > Len(scheme) + 1
    /\ SubSeq(i, 1, Len(scheme) + 1) = scheme \o <<":">>

\* The lookupAsset calls that have returned.
LookedUp == {p \in Procs : op[p] = "download"}

\* C28: every stored asset is valid, is stored once under its id and has the
\* path makePath(key); an ID without the "scheme:key" shape or with an unknown
\* scheme is never stored; all lookups of a valid ID return the same asset
\* object, and ok is false only for the call that created it.
C28_Registry ==
  /\ \A a \in assets :
       /\ valid(a)
       /\ ValidID(a.id)
       /\ a.path = makePath(a.key)
       /\ a.id = SubSeq(a.id, 1, Len(a.id) - Len(a.key)) \o a.key
       /\ \A b \in assets : b.id = a.id => b = a
  /\ \A p \in LookedUp :
       IF ValidID(id[p])
         THEN /\ cur[p] \in assets
              /\ cur[p].id = id[p]
              /\ aok[p] <=> cur[p].obj # p
         ELSE /\ ~aok[p]
              /\ \A a \in assets : a.id # id[p]
  /\ \A p, q \in LookedUp : (id[p] = id[q] /\ ValidID(id[p])) => cur[p] = cur[q]

\* C28 witness: two lookups of "s3:a" have returned the one stored asset, the
\* first with ok false and the second with ok true.
C28_Witness ==
  \E p, q \in LookedUp :
    /\ id[p] = S3Prefix \o <<"a">>
    /\ id[q] = id[p]
    /\ ~aok[p]
    /\ aok[q]
    /\ cur[p] = cur[q]
    /\ cur[p] \in assets

\* A purge call of p that returns without an error logged leaves no file at
\* a.path and no entry for a.id in the registry.
C29Step(p) ==
  (pc[p] = "idle" /\ pc'[p] = "done" /\ op'[p] = "purge" /\ res'[p].err = "nil")
  => /\ cur'[p].path \notin files'
     /\ \A a \in assets' : a.id # cur'[p].id

\* C29: purge deletes the cached file of the asset and untracks it from the
\* assets list.
C29_PurgeUntracks == [][\A p \in Procs : C29Step(p)]_vars

\* The process has ended after a signal: main has returned, or a panic has
\* ended it.
EndedAfterSignal == hpc # "trapped" /\ (mpc = "exited" \/ panicked)

\* C24: on SIGINT/SIGTERM the server is shut down first, then the teardown of
\* every loaded plugin is called once, in load order, and the process does not
\* end before the last teardown has returned.
C24_ShutdownOrder ==
  /\ torn # <<>> => srv = "closed"
  /\ Len(torn) <= Len(teardownPlugins)
  /\ torn = SubSeq(teardownPlugins, 1, Len(torn))
  /\ EndedAfterSignal => torn = teardownPlugins

\* C32: the presets are nested (a URL that FeaturesLevel0 supports is
\* supported by FeaturesLevel1, and one that FeaturesLevel1 supports by
\* FeaturesLevel2), and Supported is monotone: setting any field of the
\* FeatureSet to true leaves a supported URL supported.
C32_SupportedMonotone ==
  gated =>
    /\ Supported(FeaturesLevel0, u) => Supported(FeaturesLevel1, u)
    /\ Supported(FeaturesLevel1, u) => Supported(FeaturesLevel2, u)
    /\ supported => \A name \in Features : Supported([fs EXCEPT ![name] = TRUE], u)

\* C32 witness: the gate let a URL pass that FeaturesLevel1 supports and
\* FeaturesLevel0 does not, under a FeatureSet with fields left to set.
C32_Witness ==
  /\ gated
  /\ supported
  /\ ~Supported(FeaturesLevel0, u)
  /\ Supported(FeaturesLevel1, u)
  /\ \E name \in Features : ~fs[name]

\* The samples of component c (counted from 0) at index i (from 0), narrowed
\* to the byte v mod 256.
Narrowed(c, i) == comps[c + 1].data[i + 1] % 256

\* C31: every sample is narrowed to v mod 256; with fewer than 3 components
\* the output is a gray image of component 0, and with 3 or more it has
\* 4*w*h bytes, pixel i holding (comp0[i], comp1[i], comp2[i], 255).
C31_Pixels ==
  xpc = "built" =>
    LET area == comps[1].w * comps[1].h
    IN IF Len(comps) < 3
         THEN /\ pix.kind = "Gray"
              /\ Len(pix.Pix) = area
              /\ \A i \in 0..(area - 1) : pix.Pix[i + 1] = Narrowed(0, i)
         ELSE /\ pix.kind = "RGBA"
              /\ Len(pix.Pix) = 4 * area
              /\ \A i \in 0..(area - 1) :
                   /\ pix.Pix[4 * i + 1] = Narrowed(0, i)
                   /\ pix.Pix[4 * i + 2] = Narrowed(1, i)
                   /\ pix.Pix[4 * i + 3] = Narrowed(2, i)
                   /\ pix.Pix[4 * i + 4] = 255

====
